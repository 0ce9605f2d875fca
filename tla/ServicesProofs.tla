--------------------------- MODULE ServicesProofs ---------------------------
(***************************************************************************)
(* Six services that share no state, each with the invariant that makes    *)
(* its properties inductive: the investigation of errors (what a handler   *)
(* holds between two awaits), the circuit breaker (what its count says of  *)
(* its state), the daily scan (how far a scan has come), the agent loop    *)
(* (whose state the one service remembers), the catalog (how far an import *)
(* that nobody disturbed has come) and the search (what its four readings  *)
(* of a calm ledger agree on).                                             *)
(***************************************************************************)
EXTENDS Investigation, CircuitBreaker, AgentLoop, DailyScan, Catalog, Search,
        FiniteSetTheorems, WellFoundedInduction, TLAPS

-----------------------------------------------------------------------------
(* The investigation of errors.                                            *)

Fix == [by : Events, at : Nat]

Handler ==
  [phase : {"waiting", "ingest", "create", "link", "suspects", "work",
            "record", "pull", "complete", "done"},
   fp : Fingerprints, files : SUBSET Files, at : Nat, verdict : Verdicts,
   before : SUBSET Fix]

ErrorNode ==
  [kept : {TRUE}, fp : Fingerprints, files : SUBSET Files, at : Nat,
   status : {"open", "investigating", "resolved"}, count : Nat,
   inquiry : {"none", "in_progress", "completed"}, closedAt : Nat]

IncidentTypes ==
  /\ handlers \in [Events -> Handler]
  /\ errors \in [Events -> {NoError} \cup ErrorNode]
  /\ fixes \in SUBSET Fix /\ started \in SUBSET Fix
  /\ pullsMade \in SUBSET Events
  /\ hour \in Nat

(* A handler that went past the breaker found fewer than MaxFixes fixes,   *)
(* and nothing that started since the window began has been forgotten.     *)
AdmittedWork ==
  /\ \A e \in Events :
       handlers[e].phase \in {"work", "record", "pull", "complete"} =>
         Cardinality(handlers[e].before) < MaxFixes
  /\ \A fix \in started :
       /\ handlers[fix.by].phase \in {"pull", "complete", "done"}
       /\ Cardinality(handlers[fix.by].before) < MaxFixes
  /\ Young(started) = Young(fixes)

(* An event's node is made by its own handler, which goes past the breaker *)
(* with the node only; pull requests and resolutions come after the record *)
(* of the investigation.                                                   *)
TracedWork ==
  \A e \in Events :
    /\ handlers[e].phase \in {"waiting", "ingest", "create"} => ~Kept(e)
    /\ handlers[e].phase \in {"work", "record", "pull", "complete"} => Kept(e)
    /\ handlers[e].phase \in {"pull", "complete"} => errors[e].inquiry # "none"
    /\ handlers[e].phase = "complete" => e \in pullsMade
    /\ e \in pullsMade => /\ handlers[e].phase \in {"complete", "done"}
                          /\ Kept(e) /\ errors[e].inquiry # "none"
    /\ Kept(e) /\ errors[e].status = "resolved" =>
         e \in pullsMade /\ errors[e].count = errors[e].closedAt

Incidents == IncidentTypes /\ AdmittedWork /\ TracedWork

(* A node is what is kept.                                                 *)
LEMMA KeptIsNode ==
  ASSUME NEW v \in {NoError} \cup ErrorNode
  PROVE  v.kept <=> v \in ErrorNode
<1>1. CASE v \in ErrorNode
  BY <1>1 DEF ErrorNode
<1>2. CASE v = NoError
  <2>1. v \notin ErrorNode
    BY <1>2 DEF NoError, ErrorNode
  <2> QED BY <1>2, <2>1 DEF NoError
<1> QED BY <1>1, <1>2

(* A node stays one when it is counted, or its state or files are set.     *)
LEMMA NodeUpdates ==
  ASSUME NEW v \in ErrorNode
  PROVE  /\ \A n \in Nat, st \in {"open", "investigating", "resolved"} :
              [v EXCEPT !.count = n, !.status = st] \in ErrorNode
         /\ \A fs \in SUBSET Files : [v EXCEPT !.files = fs] \in ErrorNode
         /\ [v EXCEPT !.status = "investigating", !.inquiry = "in_progress"]
              \in ErrorNode
         /\ \A n \in Nat :
              [v EXCEPT !.status = "resolved", !.inquiry = "completed",
                        !.closedAt = n] \in ErrorNode
         /\ v.count \in Nat /\ v.count + 1 \in Nat
<1>1. \A n \in Nat, st \in {"open", "investigating", "resolved"} :
        [v EXCEPT !.count = n, !.status = st] \in ErrorNode
  BY DEF ErrorNode
<1>2. \A fs \in SUBSET Files : [v EXCEPT !.files = fs] \in ErrorNode
  BY DEF ErrorNode
<1>3. [v EXCEPT !.status = "investigating", !.inquiry = "in_progress"] \in ErrorNode
  BY DEF ErrorNode
<1>4. \A n \in Nat :
        [v EXCEPT !.status = "resolved", !.inquiry = "completed", !.closedAt = n]
          \in ErrorNode
  BY DEF ErrorNode
<1>5. v.count \in Nat /\ v.count + 1 \in Nat
  BY DEF ErrorNode
<1> QED BY <1>1, <1>2, <1>3, <1>4, <1>5

(* A recurrence is counted and opens what was resolved.                    *)
LEMMA OnMatchProperties ==
  ASSUME NEW error \in ErrorNode
  PROVE  /\ OnMatch(error) \in ErrorNode
         /\ OnMatch(error).status # "resolved"
         /\ OnMatch(error).inquiry = error.inquiry
<1> DEFINE status == IF error.status = "resolved" THEN "open" ELSE error.status
<1>1. status \in {"open", "investigating"}
  BY DEF ErrorNode
<1>2. OnMatch(error) = [error EXCEPT !.count = error.count + 1, !.status = status]
  BY DEF OnMatch
<1>3. OnMatch(error) \in ErrorNode
  <2> HIDE DEF status
  <2>1. \A n \in Nat, st \in {"open", "investigating", "resolved"} :
          [error EXCEPT !.count = n, !.status = st] \in ErrorNode
    BY NodeUpdates
  <2>2. error.count + 1 \in Nat
    BY NodeUpdates
  <2>3. [error EXCEPT !.count = error.count + 1, !.status = status] \in ErrorNode
    BY <1>1, <2>1, <2>2
  <2> QED BY <1>2, <2>3
<1> HIDE DEF status
<1> QED BY <1>1, <1>2, <1>3 DEF ErrorNode

(* What a handler that ends leaves of itself.                              *)
LEMMA FinishProperties ==
  ASSUME IncidentTypes, NEW e \in Events, Finish(e)
  PROVE  /\ handlers' \in [Events -> Handler]
         /\ \A x \in Events : handlers'[x].before = handlers[x].before
         /\ \A x \in Events \ {e} : handlers'[x] = handlers[x]
         /\ handlers'[e].phase = "done"
BY InvestigationAssumption
   DEF Finish, IncidentTypes, Handler, Unreported, Verdicts

(* A change of phase changes nothing else.                                 *)
LEMMA GotoProperties ==
  ASSUME IncidentTypes, NEW e \in Events, NEW phase, Goto(e, phase),
         phase \in {"create", "link", "suspects", "pull", "complete"}
  PROVE  /\ handlers' \in [Events -> Handler]
         /\ \A x \in Events : handlers'[x].before = handlers[x].before
         /\ \A x \in Events \ {e} : handlers'[x] = handlers[x]
         /\ handlers'[e].phase = phase
BY DEF Goto, IncidentTypes, Handler

(* Only the handler that moves changes.                                    *)
LEMMA HandlerMoves ==
  ASSUME IncidentTypes, NEW e \in Events, NEW next \in Handler,
         handlers' = [handlers EXCEPT ![e] = next]
  PROVE  /\ handlers' \in [Events -> Handler]
         /\ handlers'[e] = next
         /\ \A x \in Events \ {e} : handlers'[x] = handlers[x]
<1>1. handlers \in [Events -> Handler]
  BY DEF IncidentTypes
<1> QED BY <1>1

(* Nothing young is forgotten when the hour moves on, and a fix that starts *)
(* now is young in both.                                                   *)
LEMMA YoungStays ==
  ASSUME IncidentTypes, Young(started) = Young(fixes)
  PROVE  /\ Young(Recent) = Young(started)
         /\ \A fix \in Fix : (hour + 1) - fix.at < Window =>
              (fix \in started <=> fix \in fixes)
         /\ \A new \in Fix : Young(started \cup {new}) = Young(fixes \cup {new})
<1>1. Young(Recent) = Young(started)
  BY DEF Young, Recent
<1>2. ASSUME NEW fix \in Fix, (hour + 1) - fix.at < Window
      PROVE  hour - fix.at < Window
  BY <1>2, InvestigationAssumption DEF IncidentTypes, Fix
<1>3. \A fix \in Fix : (hour + 1) - fix.at < Window =>
        (fix \in started <=> fix \in fixes)
  BY <1>2 DEF Young
<1>4. \A new \in Fix : Young(started \cup {new}) = Young(fixes \cup {new})
  BY DEF Young
<1> QED BY <1>1, <1>3, <1>4

LEMMA IncidentsInit == InvestigationInit => Incidents
BY InvestigationAssumption
   DEF InvestigationInit, Incidents, IncidentTypes, AdmittedWork, TracedWork,
       Unreported, NoError, Handler, Verdicts, Kept, Young

(* Each step of a handler keeps the three.                                 *)
LEMMA IncidentsStep == Incidents /\ [InvestigationNext]_incidentVars => Incidents'
<1> SUFFICES ASSUME Incidents, [InvestigationNext]_incidentVars
             PROVE  Incidents'
  OBVIOUS
<1> USE DEF Incidents
<1>1. ASSUME NEW e \in Events, Receive(e) PROVE Incidents'
  <2>1. PICK fp \in Fingerprints, files \in SUBSET Files :
          handlers' = [handlers EXCEPT ![e] =
            [@ EXCEPT !.phase = "ingest", !.fp = fp, !.files = files, !.at = hour]]
    BY <1>1 DEF Receive
  <2>2. /\ handlers[e].phase = "waiting"
        /\ UNCHANGED <<errors, fixes, started, pullsMade, hour>>
    BY <1>1 DEF Receive
  <2>3. /\ handlers' \in [Events -> Handler]
        /\ \A x \in Events : handlers'[x].before = handlers[x].before
        /\ \A x \in Events \ {e} : handlers'[x] = handlers[x]
        /\ handlers'[e].phase = "ingest"
    <3> DEFINE next == [handlers[e] EXCEPT !.phase = "ingest", !.fp = fp,
                                           !.files = files, !.at = hour]
    <3>1. handlers[e] \in Handler /\ hour \in Nat
      BY DEF IncidentTypes
    <3>2. next \in Handler
      BY <3>1 DEF Handler
    <3>3. next.phase = "ingest" /\ next.before = handlers[e].before
      BY <3>1 DEF Handler
    <3>4. handlers' = [handlers EXCEPT ![e] = next]
      BY <2>1
    <3> HIDE DEF next
    <3> QED BY <3>2, <3>3, <3>4, HandlerMoves
  <2> QED BY <2>2, <2>3
          DEF IncidentTypes, AdmittedWork, TracedWork, Kept, Young, Fix
<1>2. ASSUME NEW e \in Events, IngestError(e) PROVE Incidents'
  <2> DEFINE found == Nodes(handlers[e].fp)
  <2>1. AfterIngest(e) \in {"link", "suspects"}
    BY DEF AfterIngest
  <2>2. /\ Goto(e, IF found = {} THEN "create" ELSE AfterIngest(e))
        /\ UNCHANGED <<fixes, started, pullsMade, hour>>
    BY <1>2 DEF IngestError
  <2>3. /\ handlers' \in [Events -> Handler]
        /\ \A x \in Events : handlers'[x].before = handlers[x].before
        /\ \A x \in Events \ {e} : handlers'[x] = handlers[x]
        /\ handlers'[e].phase \in {"create", "link", "suspects"}
    BY <2>1, <2>2, GotoProperties
  <2>4. /\ errors' \in [Events -> {NoError} \cup ErrorNode]
        /\ \A x \in Events : (Kept(x)' <=> Kept(x))
        /\ \A x \in Events : Kept(x) =>
             /\ errors'[x].inquiry = errors[x].inquiry
             /\ errors'[x] = errors[x] \/ errors'[x].status # "resolved"
    <3>1. errors' = [x \in Events |->
                       IF x \in found THEN OnMatch(errors[x]) ELSE errors[x]]
      BY <1>2 DEF IngestError
    <3>2. \A x \in found : x \in Events /\ Kept(x)
      BY DEF Nodes
    <3>3. \A x \in Events : Kept(x) <=> errors[x] \in ErrorNode
      BY KeptIsNode DEF IncidentTypes, Kept
    <3>4. \A x \in Events : errors'[x] \in ErrorNode <=> errors[x] \in ErrorNode
      BY <3>1, <3>2, <3>3, OnMatchProperties
    <3>5. errors' \in [Events -> {NoError} \cup ErrorNode]
      BY <3>1, <3>2, <3>3, OnMatchProperties DEF IncidentTypes
    <3>6. \A x \in Events : Kept(x)' <=> errors'[x] \in ErrorNode
      BY <3>5, KeptIsNode DEF Kept
    <3>7. \A x \in Events : (Kept(x)' <=> Kept(x))
      BY <3>3, <3>4, <3>6
    <3>8. \A x \in Events : Kept(x) =>
            /\ errors'[x].inquiry = errors[x].inquiry
            /\ errors'[x] = errors[x] \/ errors'[x].status # "resolved"
      BY <3>1, <3>3, OnMatchProperties
    <3> QED BY <3>5, <3>7, <3>8
  <2>5. handlers[e].phase = "ingest"
    BY <1>2 DEF IngestError
  <2>6. IncidentTypes'
    BY <2>2, <2>3, <2>4 DEF IncidentTypes
  <2>7. AdmittedWork'
    BY <2>2, <2>3, <2>5 DEF IncidentTypes, AdmittedWork, Young, Fix
  <2>8. TracedWork'
    BY <2>2, <2>3, <2>4, <2>5 DEF TracedWork
  <2> QED BY <2>6, <2>7, <2>8
<1>3. ASSUME NEW e \in Events, CreateError(e) PROVE Incidents'
  <2>1. AfterIngest(e) \in {"link", "suspects"}
    BY DEF AfterIngest
  <2>2. /\ handlers' \in [Events -> Handler]
        /\ \A x \in Events : handlers'[x].before = handlers[x].before
        /\ \A x \in Events \ {e} : handlers'[x] = handlers[x]
        /\ handlers'[e].phase \in {"link", "suspects"}
    BY <1>3, <2>1, GotoProperties DEF CreateError
  <2>3. NewError(e) \in ErrorNode
    BY DEF NewError, ErrorNode, IncidentTypes, Handler
  <2>4. /\ errors' \in [Events -> {NoError} \cup ErrorNode]
        /\ errors'[e] \in ErrorNode /\ errors'[e].status = "open"
        /\ \A x \in Events \ {e} : errors'[x] = errors[x]
    BY <1>3, <2>3 DEF CreateError, IncidentTypes, NewError
  <2>5. handlers[e].phase = "create" /\ UNCHANGED <<fixes, started, pullsMade, hour>>
    BY <1>3 DEF CreateError
  <2>6. Kept(e)'
    BY <2>4, KeptIsNode DEF Kept
  <2>7. \A x \in Events \ {e} : (Kept(x)' <=> Kept(x))
    BY <2>4 DEF Kept
  <2>8. IncidentTypes'
    BY <2>2, <2>4, <2>5 DEF IncidentTypes
  <2>9. AdmittedWork'
    BY <2>2, <2>5 DEF IncidentTypes, AdmittedWork, Young, Fix
  <2>10. TracedWork'
    BY <2>2, <2>4, <2>5, <2>6, <2>7 DEF TracedWork
  <2> QED BY <2>8, <2>9, <2>10
<1>4. ASSUME NEW e \in Events, LinkFiles(e) PROVE Incidents'
  <2>1. /\ handlers' \in [Events -> Handler]
        /\ \A x \in Events : handlers'[x].before = handlers[x].before
        /\ \A x \in Events \ {e} : handlers'[x] = handlers[x]
        /\ handlers'[e].phase = "suspects"
    BY <1>4, GotoProperties DEF LinkFiles
  <2>2. /\ errors' \in [Events -> {NoError} \cup ErrorNode]
        /\ \A x \in Events : (Kept(x)' <=> Kept(x))
        /\ \A x \in Events : Kept(x) =>
             /\ errors'[x].inquiry = errors[x].inquiry
             /\ errors'[x].status = errors[x].status
             /\ errors'[x].count = errors[x].count
             /\ errors'[x].closedAt = errors[x].closedAt
    <3>1. CASE ~Kept(e) /\ errors' = errors
      BY <3>1 DEF IncidentTypes, Kept
    <3>2. CASE Kept(e) /\ errors' = [errors EXCEPT ![e].files = handlers[e].files]
      <4>1. errors[e] \in ErrorNode /\ handlers[e].files \in SUBSET Files
        BY <3>2, KeptIsNode DEF IncidentTypes, Kept, Handler
      <4>2. /\ errors' \in [Events -> {NoError} \cup ErrorNode]
            /\ errors'[e] = [errors[e] EXCEPT !.files = handlers[e].files]
            /\ \A x \in Events \ {e} : errors'[x] = errors[x]
        BY <3>2, <4>1, NodeUpdates DEF IncidentTypes
      <4>3. /\ errors'[e].kept = errors[e].kept
            /\ errors'[e].inquiry = errors[e].inquiry
            /\ errors'[e].status = errors[e].status
            /\ errors'[e].count = errors[e].count
            /\ errors'[e].closedAt = errors[e].closedAt
        BY <4>1, <4>2 DEF ErrorNode
      <4> QED BY <4>2, <4>3 DEF Kept
    <3> QED BY <1>4, <3>1, <3>2 DEF LinkFiles
  <2>3. handlers[e].phase = "link" /\ UNCHANGED <<fixes, started, pullsMade, hour>>
    BY <1>4 DEF LinkFiles
  <2>4. IncidentTypes'
    BY <2>1, <2>2, <2>3 DEF IncidentTypes
  <2>5. AdmittedWork'
    BY <2>1, <2>3 DEF IncidentTypes, AdmittedWork, Young, Fix
  <2>6. TracedWork'
    BY <2>1, <2>2, <2>3 DEF TracedWork
  <2> QED BY <2>4, <2>5, <2>6
<1>5. ASSUME NEW e \in Events, FindSuspects(e) PROVE Incidents'
  <2>1. handlers[e].phase = "suspects" /\ UNCHANGED <<errors, started, pullsMade, hour>>
    BY <1>5 DEF FindSuspects
  <2>2. fixes' \in SUBSET Fix /\ Young(fixes)' = Young(fixes)
    BY <1>5, YoungStays
       DEF FindSuspects, IncidentTypes, Recent, Young, AdmittedWork
  <2>3. /\ Young(started)' = Young(started)
        /\ \A x \in Events : (Kept(x)' <=> Kept(x))
    BY <2>1 DEF Young, Kept
  <2>4. CASE Finish(e)
    BY <2>1, <2>2, <2>3, <2>4, FinishProperties
       DEF IncidentTypes, AdmittedWork, TracedWork, Fix
  <2>5. CASE /\ Suspects(e) # {} /\ Cardinality(Recent) < MaxFixes
             /\ handlers' = [handlers EXCEPT ![e].phase = "work",
                                             ![e].before = Young(started)]
    <3>1. Kept(e)
      BY <2>5 DEF Suspects
    <3>2. Cardinality(Young(started)) < MaxFixes
      BY <2>5 DEF AdmittedWork, Recent
    <3>3. Young(started) \in SUBSET Fix
      BY DEF Young, IncidentTypes
    <3>4. /\ handlers' \in [Events -> Handler]
          /\ \A x \in Events \ {e} : handlers'[x] = handlers[x]
          /\ handlers'[e].phase = "work" /\ handlers'[e].before = Young(started)
      <4> DEFINE next == [handlers[e] EXCEPT !.phase = "work", !.before = Young(started)]
      <4>1. handlers[e] \in Handler
        BY DEF IncidentTypes
      <4>2. next \in Handler /\ next.phase = "work" /\ next.before = Young(started)
        BY <3>3, <4>1 DEF Handler
      <4>3. handlers' = [handlers EXCEPT ![e] = next]
        BY <2>5 DEF IncidentTypes
      <4> HIDE DEF next
      <4> QED BY <4>2, <4>3, HandlerMoves
    <3>5. IncidentTypes'
      BY <2>1, <2>2, <3>4 DEF IncidentTypes
    <3>6. AdmittedWork'
      BY <2>1, <2>2, <2>3, <3>2, <3>4 DEF IncidentTypes, AdmittedWork, Fix
    <3>7. TracedWork'
      BY <2>1, <2>3, <3>1, <3>4 DEF TracedWork
    <3> QED BY <3>5, <3>6, <3>7
  <2> QED BY <1>5, <2>4, <2>5 DEF FindSuspects
<1>6. ASSUME NEW e \in Events, AgentAnswers(e) PROVE Incidents'
  <2>1. /\ handlers' \in [Events -> Handler]
        /\ \A x \in Events : handlers'[x].before = handlers[x].before
        /\ \A x \in Events \ {e} : handlers'[x] = handlers[x]
        /\ handlers[e].phase = "work" /\ handlers'[e].phase = "record"
        /\ UNCHANGED <<errors, fixes, started, pullsMade, hour>>
    <3>1. PICK verdict \in Verdicts :
            handlers' = [handlers EXCEPT ![e].phase = "record", ![e].verdict = verdict]
      BY <1>6 DEF AgentAnswers
    <3> DEFINE next == [handlers[e] EXCEPT !.phase = "record", !.verdict = verdict]
    <3>2. handlers' = [handlers EXCEPT ![e] = next]
      BY <3>1 DEF IncidentTypes
    <3>3. handlers[e] \in Handler
      BY DEF IncidentTypes
    <3>4. next \in Handler /\ next.phase = "record" /\ next.before = handlers[e].before
      BY <3>3 DEF Handler
    <3>5. /\ handlers[e].phase = "work"
          /\ UNCHANGED <<errors, fixes, started, pullsMade, hour>>
      BY <1>6 DEF AgentAnswers
    <3> HIDE DEF next
    <3>6. /\ handlers' \in [Events -> Handler]
          /\ handlers'[e] = next
          /\ \A x \in Events \ {e} : handlers'[x] = handlers[x]
      BY <3>2, <3>4, HandlerMoves
    <3>7. \A x \in Events : handlers'[x].before = handlers[x].before
      BY <3>4, <3>6
    <3> QED BY <3>4, <3>5, <3>6, <3>7
  <2> QED BY <2>1 DEF IncidentTypes, AdmittedWork, TracedWork, Young, Kept, Fix
<1>7. ASSUME NEW e \in Events, RecordInvestigation(e) PROVE Incidents'
  <2> DEFINE new == [by |-> e, at |-> hour]
  <2>1. handlers[e].phase = "record" /\ UNCHANGED <<pullsMade, hour>>
    BY <1>7 DEF RecordInvestigation
  <2>2. /\ Kept(e) /\ errors' \in [Events -> {NoError} \cup ErrorNode]
        /\ \A x \in Events : (Kept(x)' <=> Kept(x))
        /\ \A x \in Events \ {e} : errors'[x] = errors[x]
        /\ errors'[e].inquiry = "in_progress" /\ errors'[e].status = "investigating"
    <3>1. Kept(e)
      BY <2>1 DEF TracedWork
    <3>2. errors[e] \in ErrorNode
      BY <3>1, KeptIsNode DEF IncidentTypes, Kept
    <3>3. errors' = [errors EXCEPT ![e].status = "investigating",
                                   ![e].inquiry = "in_progress"]
      BY <1>7, <3>1 DEF RecordInvestigation
    <3>4. errors' = [errors EXCEPT ![e] =
            [errors[e] EXCEPT !.status = "investigating", !.inquiry = "in_progress"]]
      BY <3>3 DEF IncidentTypes
    <3>5. errors'[e] \in ErrorNode
      BY <3>2, <3>4, NodeUpdates DEF IncidentTypes
    <3>6. Kept(e)'
      BY <3>5, KeptIsNode DEF Kept
    <3>7. /\ errors' \in [Events -> {NoError} \cup ErrorNode]
          /\ \A x \in Events \ {e} : errors'[x] = errors[x]
      BY <3>4, <3>5 DEF IncidentTypes
    <3>8. \A x \in Events \ {e} : Kept(x)' <=> Kept(x)
      BY <3>7 DEF Kept
    <3>9. errors'[e].inquiry = "in_progress" /\ errors'[e].status = "investigating"
      BY <3>2, <3>4 DEF IncidentTypes, ErrorNode
    <3> QED BY <3>1, <3>6, <3>7, <3>8, <3>9
  <2>3. CASE Finish(e) /\ UNCHANGED <<fixes, started>>
    BY <2>1, <2>2, <2>3, FinishProperties
       DEF IncidentTypes, AdmittedWork, TracedWork, Fix, Young
  <2>4. CASE /\ fixes' = fixes \cup {new} /\ started' = started \cup {new}
             /\ Goto(e, "pull")
    <3>1. new \in Fix
      BY DEF Fix, IncidentTypes
    <3>2. Young(started)' = Young(fixes)'
      BY <2>1, <2>4, <3>1, YoungStays DEF AdmittedWork, Young
    <3>3. fixes' \in SUBSET Fix /\ started' \in SUBSET Fix
      BY <2>4, <3>1 DEF IncidentTypes
    <3>4. /\ handlers' \in [Events -> Handler]
          /\ \A x \in Events : handlers'[x].before = handlers[x].before
          /\ \A x \in Events \ {e} : handlers'[x] = handlers[x]
          /\ handlers'[e].phase = "pull"
      BY <2>4, GotoProperties
    <3>5. \A fix \in started' : fix \in started \/ fix.by = e
      BY <2>4
    <3>6. IncidentTypes'
      BY <2>1, <2>2, <3>3, <3>4 DEF IncidentTypes
    <3>7. AdmittedWork'
      BY <2>1, <3>2, <3>4, <3>5 DEF IncidentTypes, AdmittedWork, Fix
    <3>8. TracedWork'
      BY <2>1, <2>2, <3>4 DEF TracedWork
    <3> QED BY <3>6, <3>7, <3>8
  <2> QED BY <1>7, <2>3, <2>4 DEF RecordInvestigation
<1>8. ASSUME NEW e \in Events, OpenPull(e) PROVE Incidents'
  <2>1. handlers[e].phase = "pull" /\ UNCHANGED <<errors, fixes, started, hour>>
    BY <1>8 DEF OpenPull
  <2>2. CASE pullsMade' = pullsMade \cup {e} /\ Goto(e, "complete")
    BY <2>1, <2>2, GotoProperties
       DEF IncidentTypes, AdmittedWork, TracedWork, Fix, Young, Kept
  <2>3. CASE UNCHANGED pullsMade /\ Finish(e)
    BY <2>1, <2>3, FinishProperties
       DEF IncidentTypes, AdmittedWork, TracedWork, Fix, Young, Kept
  <2> QED BY <1>8, <2>2, <2>3 DEF OpenPull
<1>9. ASSUME NEW e \in Events, CompleteInvestigation(e) PROVE Incidents'
  <2>1. /\ handlers[e].phase = "complete" /\ Finish(e)
        /\ UNCHANGED <<fixes, started, pullsMade, hour>>
    BY <1>9 DEF CompleteInvestigation
  <2>2. Kept(e) /\ errors[e] \in ErrorNode
    BY <2>1, KeptIsNode DEF TracedWork, IncidentTypes, Kept
  <2>3. /\ errors' \in [Events -> {NoError} \cup ErrorNode]
        /\ \A x \in Events : (Kept(x)' <=> Kept(x))
        /\ \A x \in Events \ {e} : errors'[x] = errors[x]
        /\ errors'[e].inquiry = "completed" /\ errors'[e].closedAt = errors'[e].count
    <3>1. errors' = [errors EXCEPT ![e] =
            [errors[e] EXCEPT !.status = "resolved", !.inquiry = "completed",
                              !.closedAt = errors[e].count]]
      BY <1>9, <2>2 DEF CompleteInvestigation, IncidentTypes
    <3>2. errors'[e] \in ErrorNode
      BY <2>2, <3>1, NodeUpdates DEF IncidentTypes
    <3>3. Kept(e)'
      BY <3>2, KeptIsNode DEF Kept
    <3>4. /\ errors' \in [Events -> {NoError} \cup ErrorNode]
          /\ \A x \in Events \ {e} : errors'[x] = errors[x]
      BY <3>1, <3>2 DEF IncidentTypes
    <3>5. \A x \in Events \ {e} : Kept(x)' <=> Kept(x)
      BY <3>4 DEF Kept
    <3>6. errors'[e].inquiry = "completed" /\ errors'[e].closedAt = errors'[e].count
      BY <2>2, <3>1 DEF IncidentTypes, ErrorNode
    <3> QED BY <2>2, <3>3, <3>4, <3>5, <3>6
  <2>4. /\ handlers' \in [Events -> Handler]
        /\ \A x \in Events : handlers'[x].before = handlers[x].before
        /\ \A x \in Events \ {e} : handlers'[x] = handlers[x]
        /\ handlers'[e].phase = "done"
    BY <2>1, FinishProperties
  <2>5. IncidentTypes'
    BY <2>1, <2>3, <2>4 DEF IncidentTypes
  <2>6. AdmittedWork'
    BY <2>1, <2>4 DEF IncidentTypes, AdmittedWork, Young, Fix
  <2>7. TracedWork'
    BY <2>1, <2>2, <2>3, <2>4 DEF TracedWork
  <2> QED BY <2>5, <2>6, <2>7
<1>10. ASSUME NEW e \in Events, HandlerFails(e) PROVE Incidents'
  BY <1>10, FinishProperties
     DEF HandlerFails, IncidentTypes, AdmittedWork, TracedWork, Fix, Young, Kept
<1>11. CASE HourTick
  <2>1. hour' = hour + 1 /\ UNCHANGED <<handlers, errors, fixes, started, pullsMade>>
    BY <1>11 DEF HourTick
  <2>2. \A fix \in Fix : (hour + 1) - fix.at < Window =>
          (fix \in started <=> fix \in fixes)
    BY YoungStays DEF AdmittedWork
  <2>3. Young(started)' = Young(fixes)'
    <3>1. Young(started)' = {fix \in started : (hour + 1) - fix.at < Window}
      BY <2>1 DEF Young
    <3>2. Young(fixes)' = {fix \in fixes : (hour + 1) - fix.at < Window}
      BY <2>1 DEF Young
    <3>3. started \subseteq Fix /\ fixes \subseteq Fix
      BY DEF IncidentTypes
    <3> QED BY <2>2, <3>1, <3>2, <3>3
  <2> QED BY <2>1, <2>3 DEF IncidentTypes, AdmittedWork, TracedWork, Kept
<1>12. CASE UNCHANGED incidentVars
  BY <1>12 DEF incidentVars, IncidentTypes, AdmittedWork, TracedWork, Kept, Young
<1> QED BY <1>1, <1>2, <1>3, <1>4, <1>5, <1>6, <1>7, <1>8, <1>9, <1>10, <1>11, <1>12
        DEF InvestigationNext

LEMMA IncidentsAlways == InvestigationSpec => []Incidents
BY IncidentsInit, IncidentsStep, PTL DEF InvestigationSpec

(* However many handlers interleave, and whatever the breaker forgets, a   *)
(* fix starts after a check that found fewer than MaxFixes fixes in the    *)
(* window (_check_circuit_breaker, _auto_fix).                             *)
THEOREM FixesAreAdmitted == InvestigationSpec => []FixesWereAdmitted
<1>1. Incidents => FixesWereAdmitted
  BY DEF Incidents, AdmittedWork, FixesWereAdmitted
<1> QED BY <1>1, IncidentsAlways, PTL

(* A pull request is opened by the handler of the event that made the node, *)
(* after its investigation was recorded on it (handle_error).              *)
THEOREM PullsHaveInquiries == InvestigationSpec => []PullsAreTraced
<1>1. Incidents => PullsAreTraced
  BY DEF Incidents, IncidentTypes, TracedWork, PullsAreTraced
<1> QED BY <1>1, IncidentsAlways, PTL

(* What is resolved has a pull request and was not seen again since        *)
(* (ingest_error, complete_investigation).                                 *)
THEOREM RecurrencesReopen == InvestigationSpec => []ResolvedUntilSeenAgain
<1>1. Incidents => ResolvedUntilSeenAgain
  BY DEF Incidents, TracedWork, ResolvedUntilSeenAgain
<1> QED BY <1>1, IncidentsAlways, PTL
-----------------------------------------------------------------------------
(* The circuit breaker.                                                    *)

(* What a breaker has once it has been read has the type of a breaker, and *)
(* is closed only if it was.                                               *)
LEMMA StateProperties ==
  ASSUME BreakerTypeOK
  PROVE  /\ State \in [state : {"closed", "open", "half_open"}, count : Nat, last : Nat]
         /\ State.count = breaker.count
         /\ State.state = "closed" <=> breaker.state = "closed"
BY DEF State, BreakerTypeOK

(* What a failure leaves has the type of a breaker, and is closed when the *)
(* breaker was and the failure is not the one that reaches the threshold.  *)
LEMMA FailedOnceProperties ==
  ASSUME BreakerTypeOK
  PROVE  /\ FailedOnce \in [state : {"closed", "open", "half_open"}, count : Nat, last : Nat]
         /\ FailedOnce.count = breaker.count + 1
         /\ FailedOnce.state = "closed" <=>
              breaker.state = "closed" /\ breaker.count + 1 < Threshold
BY CircuitBreakerAssumption DEF FailedOnce, BreakerTypeOK

(* The types are kept by every step of CircuitBreaker.call.                *)
LEMMA BreakerTypeStep == BreakerTypeOK /\ [BreakerNext]_breakerVars => BreakerTypeOK'
<1> SUFFICES ASSUME BreakerTypeOK, [BreakerNext]_breakerVars PROVE BreakerTypeOK'
  OBVIOUS
<1>1. ASSUME NEW c \in Callers, Call(c) PROVE BreakerTypeOK'
  BY <1>1, StateProperties DEF Call, BreakerTypeOK
<1>2. ASSUME NEW c \in Callers, Succeed(c) PROVE BreakerTypeOK'
  BY <1>2 DEF Succeed, Succeeded, BreakerTypeOK
<1>3. ASSUME NEW c \in Callers, Fail(c) PROVE BreakerTypeOK'
  BY <1>3, FailedOnceProperties DEF Fail, BreakerTypeOK
<1>4. CASE BreakerTick
  BY <1>4 DEF BreakerTick, BreakerTypeOK
<1>5. CASE UNCHANGED breakerVars
  BY <1>5 DEF breakerVars, BreakerTypeOK
<1> QED BY <1>1, <1>2, <1>3, <1>4, <1>5 DEF BreakerNext

(* A success closes the breaker with nothing counted, a failure counts one *)
(* more and opens it at the threshold, and a read moves neither.           *)
LEMMA ClosedStep ==
  BreakerTypeOK /\ ClosedBelowThreshold /\ [BreakerNext]_breakerVars
    => ClosedBelowThreshold'
<1> SUFFICES ASSUME BreakerTypeOK, ClosedBelowThreshold, [BreakerNext]_breakerVars
             PROVE  ClosedBelowThreshold'
  OBVIOUS
<1>1. ASSUME NEW c \in Callers, Call(c) PROVE ClosedBelowThreshold'
  BY <1>1, StateProperties DEF Call, ClosedBelowThreshold
<1>2. ASSUME NEW c \in Callers, Succeed(c) PROVE ClosedBelowThreshold'
  <2>1. breaker'.state = "closed" /\ breaker'.count = 0
    BY <1>2 DEF Succeed, Succeeded, BreakerTypeOK
  <2>2. 0 < Threshold
    BY CircuitBreakerAssumption
  <2> QED BY <2>1, <2>2 DEF ClosedBelowThreshold
<1>3. ASSUME NEW c \in Callers, Fail(c) PROVE ClosedBelowThreshold'
  <2>1. breaker'.state = "closed" <=> breaker.state = "closed" /\ breaker'.count < Threshold
    BY <1>3, FailedOnceProperties DEF Fail
  <2>2. breaker'.count < Threshold => breaker.count < Threshold
    BY <1>3, FailedOnceProperties, CircuitBreakerAssumption DEF Fail, BreakerTypeOK
  <2> QED BY <2>1, <2>2 DEF ClosedBelowThreshold
<1>4. CASE BreakerTick
  BY <1>4 DEF BreakerTick, ClosedBelowThreshold
<1>5. CASE UNCHANGED breakerVars
  BY <1>5 DEF breakerVars, ClosedBelowThreshold
<1> QED BY <1>1, <1>2, <1>3, <1>4, <1>5 DEF BreakerNext

(* A breaker begins closed, with nothing counted.                          *)
LEMMA BreakerStarts == BreakerInit => BreakerTypeOK /\ ClosedBelowThreshold
BY CircuitBreakerAssumption DEF BreakerInit, BreakerTypeOK, ClosedBelowThreshold

(* CircuitBreaker: closed exactly below the threshold, whatever calls      *)
(* overlap and whenever they end.                                          *)
THEOREM BreakerAgrees == BreakerSpec => []ClosedBelowThreshold
<1>1. BreakerTypeOK /\ ClosedBelowThreshold /\ [BreakerNext]_breakerVars
        => (BreakerTypeOK /\ ClosedBelowThreshold)'
  BY BreakerTypeStep, ClosedStep
<1> QED BY BreakerStarts, <1>1, PTL DEF BreakerSpec
-----------------------------------------------------------------------------
(* The daily scan.                                                         *)

ListedPull == [pull : AllPulls, merged : BOOLEAN]

Scan ==
  [phase : {"idle", "fetch", "pulls", "cards", "done"}, full : BOOLEAN,
   repo : Nat, todo : Seq(ListedPull), tried : SUBSET AllPulls,
   new : SUBSET ListedPull,
   errors : SUBSET (ToSet(Repos) \cup {Shortcut})]

(* The i-th repository of a scan failed, or its page was tried to the end. *)
Accounted(scan, i) ==
  \/ Repos[i] \in scan.errors
  \/ ToSet(Listed(Repos[i], scan.full)) \subseteq scan.tried

(* How far a scan has come: every repository before the one it is at is    *)
(* accounted for, and what remains of the page is what was not tried.      *)
Underway(scan) ==
  /\ scan.repo \in 1..Len(Repos)
  /\ \A i \in 1..(scan.repo - 1) : Accounted(scan, i)

Progress(scan) ==
  /\ scan \in Scan
  /\ scan.phase = "idle" => scan.repo = 1
  /\ scan.phase \in {"fetch", "pulls"} => Underway(scan)
  /\ scan.phase = "pulls" =>
       /\ scan.todo # <<>>
       /\ ToSet(Listed(Repos[scan.repo], scan.full)) \subseteq
            scan.tried \cup {scan.todo[i].pull : i \in DOMAIN scan.todo}
  /\ scan.phase \in {"cards", "done"} =>
       \A i \in 1..Len(Repos) : Accounted(scan, i)

Scanning ==
  /\ scans \in [Scans -> Scan]
  /\ \A s \in Scans : Progress(scans[s])

(* A page is a sequence of pull requests.                                  *)
LEMMA ListedIsSequence ==
  ASSUME NEW i \in 1..Len(Repos), NEW full \in BOOLEAN
  PROVE  /\ Repos[i] \in ToSet(Repos)
         /\ Listed(Repos[i], full) \in Seq(AllPulls)
<1>1. Repos[i] \in ToSet(Repos)
  BY DailyScanAssumption DEF ToSet
<1>2. /\ PullsOf[Repos[i]] \in Seq(AllPulls)
      /\ Today[Repos[i]] \in 0..Len(PullsOf[Repos[i]]) /\ Page \in Nat
  BY <1>1, DailyScanAssumption
<1> DEFINE found == IF full THEN Len(PullsOf[Repos[i]]) ELSE Today[Repos[i]]
           last == IF found < Page THEN found ELSE Page
<1>3. last \in 0..Len(PullsOf[Repos[i]])
  BY <1>2
<1>4. SubSeq(PullsOf[Repos[i]], 1, last) \in Seq(AllPulls)
  <2> HIDE DEF last
  <2> QED BY <1>2, <1>3
<1> QED BY <1>1, <1>4 DEF Listed

(* What is accounted for stays so while errors and tries are added.        *)
LEMMA AccountedStays ==
  ASSUME NEW scan, NEW next, NEW i, Accounted(scan, i),
         next.full = scan.full, scan.errors \subseteq next.errors,
         scan.tried \subseteq next.tried
  PROVE  Accounted(next, i)
BY DEF Accounted

(* A scan may go on from a repository that is accounted for.               *)
LEMMA OnwardKeepsProgress ==
  ASSUME NEW scan \in Scan, Underway(scan), Accounted(scan, scan.repo)
  PROVE  Progress(Onward(scan))
<1>1. CASE scan.repo = Len(Repos)
  <2> DEFINE next == [scan EXCEPT !.phase = "cards", !.todo = <<>>]
  <2>1. /\ next \in Scan /\ next.phase = "cards" /\ next.full = scan.full
        /\ next.errors = scan.errors /\ next.tried = scan.tried
    <3>1. <<>> \in Seq(ListedPull)
      OBVIOUS
    <3> QED BY <3>1 DEF Scan
  <2>2. \A i \in 1..Len(Repos) : Accounted(scan, i)
    BY <1>1 DEF Underway
  <2> HIDE DEF next
  <2>3. \A i \in 1..Len(Repos) : Accounted(next, i)
    BY <2>1, <2>2, AccountedStays
  <2>4. Progress(next)
    BY <2>1, <2>3 DEF Progress
  <2> QED BY <1>1, <2>4 DEF Onward, next
<1>2. CASE scan.repo # Len(Repos)
  <2> DEFINE next == [scan EXCEPT !.phase = "fetch", !.todo = <<>>,
                                  !.repo = scan.repo + 1]
  <2>1. scan.repo \in 1..(Len(Repos) - 1) /\ Len(Repos) \in Nat
    BY <1>2, DailyScanAssumption DEF Underway
  <2>2. /\ next \in Scan /\ next.phase = "fetch" /\ next.full = scan.full
        /\ next.errors = scan.errors /\ next.tried = scan.tried
        /\ next.repo = scan.repo + 1
    <3>1. <<>> \in Seq(ListedPull) /\ scan.repo + 1 \in Nat
      BY <2>1
    <3> QED BY <3>1 DEF Scan
  <2>3. \A i \in 1..scan.repo : Accounted(scan, i)
    BY <2>1 DEF Underway
  <2> HIDE DEF next
  <2>4. \A i \in 1..(next.repo - 1) : Accounted(next, i)
    BY <2>1, <2>2, <2>3, AccountedStays
  <2>5. Progress(next)
    BY <2>1, <2>2, <2>4 DEF Progress, Underway
  <2> QED BY <1>2, <2>5 DEF Onward, next
<1> QED BY <1>1, <1>2

(* The failure of a repository accounts for it, and only for it.           *)
LEMMA FailedKeepsProgress ==
  ASSUME NEW scan \in Scan, Underway(scan)
  PROVE  Progress(Failed(scan))
<1> DEFINE failed == [scan EXCEPT !.errors = scan.errors \cup {Repos[scan.repo]}]
<1>1. Repos[scan.repo] \in ToSet(Repos)
  BY DailyScanAssumption DEF Underway, ToSet
<1>2. /\ failed \in Scan /\ failed.full = scan.full /\ failed.repo = scan.repo
      /\ failed.errors = scan.errors \cup {Repos[scan.repo]}
      /\ failed.tried = scan.tried
  BY <1>1 DEF Scan
<1> HIDE DEF failed
<1>3. Underway(failed)
  <2>1. \A i \in 1..(scan.repo - 1) : Accounted(failed, i)
    BY <1>2, AccountedStays DEF Underway
  <2> QED BY <1>2, <2>1 DEF Underway
<1>4. Accounted(failed, failed.repo)
  BY <1>2 DEF Accounted
<1>5. Progress(Onward(failed))
  BY <1>2, <1>3, <1>4, OnwardKeepsProgress
<1> QED BY <1>5 DEF Failed, failed

(* A pull request that was tried, kept or skipped, is one less to try.     *)
LEMMA TriedKeepsProgress ==
  ASSUME NEW scan, Progress(scan), scan.phase = "pulls"
  PROVE  Progress(Tried(scan))
<1> DEFINE rest == [scan EXCEPT !.tried = scan.tried \cup {Head(scan.todo).pull},
                                !.todo = Tail(scan.todo)]
<1>1. scan \in Scan /\ Underway(scan) /\ scan.todo \in Seq(ListedPull) \ {<<>>}
  BY DEF Progress, Scan
<1>2. Head(scan.todo) \in ListedPull /\ Tail(scan.todo) \in Seq(ListedPull)
  BY <1>1
<1>3. Head(scan.todo).pull \in AllPulls
  BY <1>2 DEF ListedPull
<1>4. /\ rest \in Scan /\ rest.full = scan.full /\ rest.repo = scan.repo
      /\ rest.phase = "pulls" /\ rest.errors = scan.errors
      /\ rest.tried = scan.tried \cup {Head(scan.todo).pull}
      /\ rest.todo = Tail(scan.todo)
  BY <1>1, <1>2, <1>3 DEF Scan
<1> HIDE DEF rest
<1>5. Underway(rest)
  <2>1. \A i \in 1..(scan.repo - 1) : Accounted(rest, i)
    BY <1>1, <1>4, AccountedStays DEF Underway
  <2> QED BY <1>1, <1>4, <2>1 DEF Underway
<1>6. ToSet(Listed(Repos[rest.repo], rest.full)) \subseteq
        rest.tried \cup {rest.todo[i].pull : i \in DOMAIN rest.todo}
  <2>1. \A i \in DOMAIN scan.todo :
          \/ scan.todo[i] = Head(scan.todo)
          \/ \E j \in DOMAIN Tail(scan.todo) : scan.todo[i] = Tail(scan.todo)[j]
    <3> SUFFICES ASSUME NEW i \in DOMAIN scan.todo, i # 1
                 PROVE  \E j \in DOMAIN Tail(scan.todo) :
                          scan.todo[i] = Tail(scan.todo)[j]
      BY <1>1
    <3>1. i - 1 \in DOMAIN Tail(scan.todo) /\ Tail(scan.todo)[i - 1] = scan.todo[i]
      BY <1>1
    <3> QED BY <3>1
  <2>2. \A p \in {scan.todo[i].pull : i \in DOMAIN scan.todo} :
          p \in rest.tried \cup {rest.todo[i].pull : i \in DOMAIN rest.todo}
    BY <1>4, <2>1
  <2>3. ToSet(Listed(Repos[scan.repo], scan.full)) \subseteq
          scan.tried \cup {scan.todo[i].pull : i \in DOMAIN scan.todo}
    BY DEF Progress
  <2> QED BY <1>4, <2>2, <2>3
<1>7. CASE rest.todo = <<>>
  <2>1. Accounted(rest, rest.repo)
    BY <1>6, <1>7 DEF Accounted
  <2> QED BY <1>4, <1>5, <1>7, <2>1, OnwardKeepsProgress DEF Tried, rest
<1>8. CASE rest.todo # <<>>
  <2>1. Progress(rest)
    BY <1>4, <1>5, <1>6, <1>8 DEF Progress
  <2> QED BY <1>8, <2>1 DEF Tried, rest
<1> QED BY <1>7, <1>8

LEMMA ScanningInit == DailyScanInit => Scanning
<1> SUFFICES ASSUME DailyScanInit PROVE Scanning
  OBVIOUS
<1>1. <<>> \in Seq(ListedPull)
  OBVIOUS
<1>2. IdleScan \in Scan /\ IdleScan.phase = "idle" /\ IdleScan.repo = 1
  BY <1>1 DEF IdleScan, Scan
<1>3. Progress(IdleScan)
  BY <1>2 DEF Progress
<1> QED BY <1>2, <1>3 DEF DailyScanInit, Scanning

(* A step of a scan changes that scan only.                                *)
LEMMA OneScanMoves ==
  ASSUME Scanning, NEW s \in Scans, NEW next, Progress(next),
         scans' = [scans EXCEPT ![s] = next]
  PROVE  Scanning'
BY DEF Scanning, Progress

(* Each step of a scan keeps its progress.                                 *)
LEMMA ScanningStep == Scanning /\ [DailyScanNext]_scanVars => Scanning'
<1> SUFFICES ASSUME Scanning, [DailyScanNext]_scanVars PROVE Scanning'
  OBVIOUS
<1>1. ASSUME NEW s \in Scans, NEW full \in BOOLEAN, StartScan(s, full)
      PROVE  Scanning'
  <2> DEFINE next == [scans[s] EXCEPT
               !.phase = IF Repos = <<>> THEN "cards" ELSE "fetch", !.full = full]
  <2>1. scans' = [scans EXCEPT ![s] = next]
    BY <1>1 DEF StartScan
  <2>2. scans[s] \in Scan /\ scans[s].phase = "idle" /\ scans[s].repo = 1
    BY <1>1 DEF StartScan, Scanning, Progress
  <2>3. /\ next \in Scan /\ next.repo = 1
        /\ next.phase = IF Repos = <<>> THEN "cards" ELSE "fetch"
    BY <2>2 DEF Scan
  <2> HIDE DEF next
  <2>4. Repos = <<>> => Len(Repos) = 0
    OBVIOUS
  <2>5. Repos # <<>> => 1 \in 1..Len(Repos)
    BY DailyScanAssumption
  <2>6. Progress(next)
    BY <2>3, <2>4, <2>5 DEF Progress, Underway
  <2> QED BY <2>1, <2>6, OneScanMoves
<1>2. ASSUME NEW s \in Scans, FetchPulls(s) PROVE Scanning'
  <2>1. Progress(scans[s]) /\ scans[s] \in Scan /\ scans[s].phase = "fetch"
    BY <1>2 DEF FetchPulls, Scanning
  <2>2. Underway(scans[s]) /\ scans[s].full \in BOOLEAN
    BY <2>1 DEF Progress, Scan
  <2> DEFINE page == Listed(Repos[scans[s].repo], scans[s].full)
             todo == [i \in DOMAIN page |->
                        [pull |-> page[i], merged |-> page[i] \in merged]]
             next == [scans[s] EXCEPT !.phase = "pulls", !.todo = todo]
  <2>3. page \in Seq(AllPulls)
    BY <2>2, ListedIsSequence DEF Underway
  <2>4. CASE scans' = [scans EXCEPT ![s] = Failed(scans[s])]
    BY <2>1, <2>2, <2>4, FailedKeepsProgress, OneScanMoves
  <2>5. CASE page = <<>> /\ scans' = [scans EXCEPT ![s] = Onward(scans[s])]
    <3>1. Accounted(scans[s], scans[s].repo)
      BY <2>5 DEF Accounted, ToSet
    <3> QED BY <2>1, <2>2, <2>5, <3>1, OnwardKeepsProgress, OneScanMoves
  <2>6. CASE page # <<>> /\ scans' = [scans EXCEPT ![s] = next]
    <3> HIDE DEF page
    <3>1. /\ todo \in Seq(ListedPull) /\ todo # <<>> /\ DOMAIN todo = DOMAIN page
          /\ \A i \in DOMAIN page : todo[i].pull = page[i]
      <4>1. \A i \in DOMAIN page : page[i] \in AllPulls
        BY <2>3
      <4>2. \A i \in DOMAIN page :
              [pull |-> page[i], merged |-> page[i] \in merged] \in ListedPull
        BY <4>1 DEF ListedPull
      <4>3. DOMAIN page = 1..Len(page) /\ Len(page) \in Nat \ {0}
        BY <2>3, <2>6
      <4>4. todo \in [1..Len(page) -> ListedPull]
        BY <4>2, <4>3
      <4> QED BY <4>3, <4>4
    <3>2. \A p \in ToSet(page) : p \in {todo[i].pull : i \in DOMAIN todo}
      BY <3>1 DEF ToSet
    <3> HIDE DEF todo
    <3>3. /\ next \in Scan /\ next.phase = "pulls" /\ next.todo = todo
          /\ next.full = scans[s].full /\ next.repo = scans[s].repo
          /\ next.errors = scans[s].errors /\ next.tried = scans[s].tried
      BY <2>1, <3>1 DEF Scan
    <3> HIDE DEF next
    <3>4. Underway(next)
      <4>1. \A i \in 1..(next.repo - 1) : Accounted(next, i)
        BY <2>2, <3>3, AccountedStays DEF Underway
      <4> QED BY <2>2, <3>3, <4>1 DEF Underway
    <3>5. ToSet(Listed(Repos[next.repo], next.full)) \subseteq
            next.tried \cup {next.todo[i].pull : i \in DOMAIN next.todo}
      BY <3>2, <3>3 DEF page
    <3>6. Progress(next)
      BY <3>1, <3>3, <3>4, <3>5 DEF Progress
    <3> QED BY <2>6, <3>6, OneScanMoves
  <2> QED BY <1>2, <2>4, <2>5, <2>6 DEF FetchPulls
<1>3. ASSUME NEW s \in Scans, scans[s].phase = "pulls",
             \/ scans' = [scans EXCEPT ![s] = Failed(scans[s])]
             \/ scans' = [scans EXCEPT ![s] = Tried(scans[s])]
             \/ scans' = [scans EXCEPT ![s] = Counted(scans[s])]
      PROVE  Scanning'
  <2>1. Progress(scans[s]) /\ scans[s] \in Scan /\ Underway(scans[s])
    BY <1>3 DEF Scanning, Progress
  <2>2. CASE scans' = [scans EXCEPT ![s] = Failed(scans[s])]
    BY <2>1, <2>2, FailedKeepsProgress, OneScanMoves
  <2>3. CASE scans' = [scans EXCEPT ![s] = Tried(scans[s])]
    BY <1>3, <2>1, <2>3, TriedKeepsProgress, OneScanMoves
  <2>4. CASE scans' = [scans EXCEPT ![s] = Counted(scans[s])]
    <3> DEFINE seen == Head(scans[s].todo)
               counted == [scans[s] EXCEPT !.new = scans[s].new \cup {seen}]
    <3>1. scans[s].todo \in Seq(ListedPull) \ {<<>>}
      BY <1>3, <2>1 DEF Progress, Scan
    <3>2. seen \in ListedPull
      BY <3>1
    <3> HIDE DEF seen
    <3>3. /\ counted \in Scan /\ counted.phase = "pulls"
          /\ counted.todo = scans[s].todo /\ counted.full = scans[s].full
          /\ counted.repo = scans[s].repo /\ counted.errors = scans[s].errors
          /\ counted.tried = scans[s].tried
      BY <1>3, <2>1, <3>2 DEF Scan
    <3> HIDE DEF counted
    <3>4. Progress(counted)
      BY <1>3, <2>1, <3>3, AccountedStays DEF Progress, Underway
    <3>5. Progress(Tried(counted))
      BY <3>3, <3>4, TriedKeepsProgress
    <3> QED BY <2>4, <3>5, OneScanMoves DEF Counted, counted, seen
  <2> QED BY <1>3, <2>2, <2>3, <2>4
<1>4. ASSUME NEW s \in Scans, IngestPull(s) PROVE Scanning'
  BY <1>4, <1>3 DEF IngestPull
<1>5. ASSUME NEW s \in Scans, SkipPull(s) PROVE Scanning'
  BY <1>5, <1>3 DEF SkipPull
<1>9. ASSUME NEW s \in Scans, UnreadDiff(s) PROVE Scanning'
  BY <1>9, <1>3 DEF UnreadDiff
<1>6. ASSUME NEW s \in Scans, ScanCards(s) PROVE Scanning'
  <2>1. PICK cards \in {{}, {Shortcut}} :
          scans' = [scans EXCEPT ![s].phase = "done",
                                 ![s].errors = scans[s].errors \cup cards]
    BY <1>6 DEF ScanCards
  <2> DEFINE next == [scans[s] EXCEPT !.phase = "done",
                                      !.errors = scans[s].errors \cup cards]
  <2>2. Progress(scans[s]) /\ scans[s] \in Scan /\ scans[s].phase = "cards"
    BY <1>6 DEF ScanCards, Scanning
  <2>3. scans' = [scans EXCEPT ![s] = next]
    BY <2>1 DEF Scanning
  <2>4. /\ next \in Scan /\ next.phase = "done" /\ next.full = scans[s].full
        /\ scans[s].errors \subseteq next.errors /\ next.tried = scans[s].tried
    BY <2>2 DEF Scan
  <2> HIDE DEF next
  <2>5. \A i \in 1..Len(Repos) : Accounted(next, i)
    BY <2>2, <2>4, AccountedStays DEF Progress
  <2>6. Progress(next)
    BY <2>4, <2>5 DEF Progress
  <2> QED BY <2>3, <2>6, OneScanMoves
<1>7. ASSUME NEW p \in AllPulls, MergePull(p) PROVE Scanning'
  BY <1>7 DEF MergePull, Scanning
<1>8. CASE UNCHANGED scanVars
  BY <1>8 DEF scanVars, Scanning
<1> QED BY <1>1, <1>2, <1>4, <1>5, <1>6, <1>7, <1>8, <1>9 DEF DailyScanNext

(* What a scan has counted is remembered as that scan saw it: a memory is  *)
(* written over by nothing but itself.                                     *)
Remembering ==
  /\ memories \in [AllPulls -> [kept : BOOLEAN, merged : BOOLEAN]]
  /\ \A s \in Scans, seen \in ListedPull :
       seen \in scans[s].new => memories[seen.pull] = Memory(seen)

LEMMA RememberingInit == DailyScanInit => Remembering
BY DEF DailyScanInit, Remembering, IdleScan, NoMemory

(* No step but that of a count adds to what a scan has counted.            *)
LEMMA CountedByIngest ==
  ASSUME NEW scan \in Scan
  PROVE  /\ Onward(scan).new = scan.new /\ Failed(scan).new = scan.new
         /\ Tried(scan).new = scan.new
         /\ Counted(scan).new = scan.new \cup {Head(scan.todo)}
BY DEF Scan, Onward, Failed, Tried, Counted

LEMMA RememberingStep ==
  Scanning /\ Remembering /\ [DailyScanNext]_scanVars => Remembering'
<1> SUFFICES ASSUME Scanning, Remembering, [DailyScanNext]_scanVars
             PROVE  Remembering'
  OBVIOUS
<1>1. ASSUME UNCHANGED memories, NEW s \in Scans, NEW next,
             scans' = [scans EXCEPT ![s] = next], next.new = scans[s].new
      PROVE  Remembering'
  BY <1>1 DEF Remembering, Scanning
<1>2. \A s \in Scans : scans[s] \in Scan
  BY DEF Scanning
<1>3. ASSUME NEW s \in Scans, NEW full \in BOOLEAN, StartScan(s, full)
      PROVE  Remembering'
  BY <1>1, <1>2, <1>3 DEF StartScan, Scan
<1>4. ASSUME NEW s \in Scans, FetchPulls(s) PROVE Remembering'
  <2> DEFINE page == Listed(Repos[scans[s].repo], scans[s].full)
             todo == [i \in DOMAIN page |->
                        [pull |-> page[i], merged |-> page[i] \in merged]]
             next == [scans[s] EXCEPT !.phase = "pulls", !.todo = todo]
  <2>1. \/ scans' = [scans EXCEPT ![s] = Failed(scans[s])]
        \/ scans' = [scans EXCEPT ![s] = Onward(scans[s])]
        \/ scans' = [scans EXCEPT ![s] = next]
    BY <1>4 DEF FetchPulls
  <2>2. next.new = scans[s].new
    BY <1>2 DEF Scan
  <2>3. UNCHANGED memories
    BY <1>4 DEF FetchPulls
  <2> HIDE DEF next
  <2> QED BY <1>1, <1>2, <2>1, <2>2, <2>3, CountedByIngest
<1>5. ASSUME NEW s \in Scans, IngestPull(s) PROVE Remembering'
  <2> DEFINE seen == Head(scans[s].todo)
  <2>1. CASE /\ scans' = [scans EXCEPT ![s] = Tried(scans[s])]
             /\ UNCHANGED memories
    BY <1>1, <1>2, <2>1, CountedByIngest
  <2>2. CASE /\ scans' = [scans EXCEPT ![s] = Counted(scans[s])]
             /\ memories' = Remembered(seen) /\ Accepts(seen)
    <3>1. scans[s].todo \in Seq(ListedPull) \ {<<>>}
      BY <1>2, <1>5 DEF IngestPull, Scanning, Progress, Scan
    <3>2. seen \in ListedPull
      BY <3>1
    <3>3. Counted(scans[s]).new = scans[s].new \cup {seen}
      BY <1>2, CountedByIngest
    <3> HIDE DEF seen
    <3>4. seen.pull \in AllPulls /\ Memory(seen) \in [kept : BOOLEAN, merged : BOOLEAN]
      BY <3>2 DEF ListedPull, Memory
    <3>5. memories' = [memories EXCEPT ![seen.pull] = Memory(seen)]
      BY <2>2 DEF Remembered
    <3>6. ASSUME NEW other \in ListedPull, memories[other.pull] = Memory(other)
          PROVE  memories'[other.pull] = Memory(other)
      <4>1. memories[other.pull].kept
        BY <3>6 DEF Memory
      <4>2. other.pull = seen.pull => Memory(seen) = Memory(other)
        BY <2>2, <3>6, <4>1 DEF Accepts, NoMemory
      <4>3. other.pull \in AllPulls
        BY DEF ListedPull
      <4> QED BY <3>4, <3>5, <3>6, <4>2, <4>3 DEF Remembering
    <3>7. memories'[seen.pull] = Memory(seen)
      BY <3>4, <3>5 DEF Remembering
    <3>8. memories' \in [AllPulls -> [kept : BOOLEAN, merged : BOOLEAN]]
      BY <3>4, <3>5 DEF Remembering
    <3>9. ASSUME NEW t \in Scans, NEW other \in ListedPull, other \in scans'[t].new
          PROVE  memories'[other.pull] = Memory(other)
      <4>1. other \in scans[t].new \/ other = seen
        BY <2>2, <3>3, <3>9 DEF Scanning
      <4> QED BY <3>6, <3>7, <4>1 DEF Remembering
    <3> QED BY <3>8, <3>9 DEF Remembering
  <2> QED BY <1>5, <2>1, <2>2 DEF IngestPull
<1>6. ASSUME NEW s \in Scans, UnreadDiff(s) \/ SkipPull(s) PROVE Remembering'
  BY <1>1, <1>2, <1>6, CountedByIngest DEF UnreadDiff, SkipPull
<1>7. ASSUME NEW s \in Scans, ScanCards(s) PROVE Remembering'
  <2>1. PICK cards : scans' = [scans EXCEPT ![s].phase = "done",
                                            ![s].errors = scans[s].errors \cup cards]
    BY <1>7 DEF ScanCards
  <2> DEFINE next == [scans[s] EXCEPT !.phase = "done",
                                      !.errors = scans[s].errors \cup cards]
  <2>2. scans' = [scans EXCEPT ![s] = next] /\ next.new = scans[s].new
    BY <1>2, <2>1 DEF Scanning, Scan
  <2> HIDE DEF next
  <2> QED BY <1>1, <1>7, <2>2 DEF ScanCards
<1>8. ASSUME NEW p \in AllPulls, MergePull(p) PROVE Remembering'
  BY <1>8 DEF MergePull, Remembering
<1>9. CASE UNCHANGED scanVars
  BY <1>9 DEF scanVars, Remembering
<1> QED BY <1>3, <1>4, <1>5, <1>6, <1>7, <1>8, <1>9 DEF DailyScanNext

LEMMA ScanningAlways == DailyScanSpec => [](Scanning /\ Remembering)
BY ScanningInit, ScanningStep, RememberingInit, RememberingStep, PTL DEF DailyScanSpec

(* However gh and the ledger fail and however scans overlap, each          *)
(* repository of a finished scan has a line among the errors or its page   *)
(* was tried to the end (_scan_github_prs), and what a scan counted is     *)
(* remembered as it saw it (create_pr_memory).                             *)
THEOREM ScansAccountForEveryRepo == DailyScanSpec => []EveryRepoIsAccounted
<1>1. Scanning /\ Remembering => EveryRepoIsAccounted
  <2> SUFFICES ASSUME Scanning, Remembering PROVE EveryRepoIsAccounted
    OBVIOUS
  <2>1. ASSUME NEW s \in Scans, scans[s].phase = "done", NEW r \in ToSet(Repos)
        PROVE  \/ r \in scans[s].errors
               \/ ToSet(Listed(r, scans[s].full)) \subseteq scans[s].tried
    <3>1. \A i \in 1..Len(Repos) : Accounted(scans[s], i)
      BY <2>1 DEF Scanning, Progress
    <3>2. \E i \in 1..Len(Repos) : r = Repos[i]
      BY DailyScanAssumption DEF ToSet
    <3> QED BY <3>1, <3>2 DEF Accounted
  <2>2. ASSUME NEW s \in Scans, NEW seen \in scans[s].new
        PROVE  memories[seen.pull] = Memory(seen)
    <3>1. scans[s].new \subseteq ListedPull
      BY DEF Scanning, Scan
    <3> QED BY <3>1 DEF Remembering
  <2> QED BY <2>1, <2>2 DEF EveryRepoIsAccounted
<1> QED BY <1>1, ScanningAlways, PTL
-----------------------------------------------------------------------------
(* The agent loop.                                                         *)

Cycle ==
  [phase : {"new", "acting", "extract", "credit", "weigh", "episode", "done"},
   outcome : {"completed", "partial", "failed"}, state : Tasks \cup {NoTask},
   todo : Seq(Procedures), rest : Seq(Memories)]

Serving == [procs : {q \in Seq(Procedures) : IsInjective(q)}, mems : Seq(Memories)]

AgentTypes ==
  /\ cycles \in [Tasks -> Cycle]
  /\ served \in [Tasks -> Serving]
  /\ lastState \in Tasks \cup {NoTask}
  /\ credits \in [Procedures \X Tasks -> Seq(BOOLEAN)]
  /\ disturbed \subseteq Tasks \cup {NoTask}

(* The state remembered is that of a task still under way; two tasks under *)
(* way disturbed each other; and whoever credits the procedures of another *)
(* task disturbed it.                                                      *)
OneState ==
  /\ lastState # NoTask => Active(lastState)
  /\ \A t, u \in Tasks : Active(t) /\ Active(u) /\ t # u => t \in disturbed
  /\ \A u \in Tasks : cycles[u].phase = "credit" =>
       /\ cycles[u].state \in Tasks
       /\ cycles[u].state # u => cycles[u].state \in disturbed

Uncredited(t) == \A p \in Procedures : credits[<<p, t>>] = <<>>

(* What an undisturbed cycle has credited: nothing until it reflects, then *)
(* what it no longer has to do, then all it was served.                    *)
CreditedSoFar(t) ==
  LET credited == <<cycles[t].outcome = "completed">>
      procs == ToSet(served[t].procs)
  IN /\ cycles[t].phase = "new" => Uncredited(t) /\ procs = {}
     /\ cycles[t].phase = "acting" => Uncredited(t) /\ lastState = t
     /\ cycles[t].phase = "extract" =>
          Uncredited(t) /\ (lastState = t \/ (lastState = NoTask /\ procs = {}))
     /\ cycles[t].phase = "credit" =>
          /\ cycles[t].state = t /\ IsInjective(cycles[t].todo)
          /\ \A p \in ToSet(cycles[t].todo) : credits[<<p, t>>] = <<>>
          /\ \A p \in procs \ ToSet(cycles[t].todo) : credits[<<p, t>>] = credited
     /\ cycles[t].phase \in {"weigh", "episode", "done"} =>
          \A p \in procs : credits[<<p, t>>] = credited

Cycles ==
  /\ AgentTypes /\ OneState
  /\ \A t \in Tasks \ disturbed : CreditedSoFar(t)

(* SetToSeq lists a finite set, each element once.                         *)
LEMMA SetToSeqProperties ==
  ASSUME NEW S, IsFiniteSet(S)
  PROVE  SetToSeq(S) \in Seq(S) /\ IsInjective(SetToSeq(S))
<1>1. Cardinality(S) \in Nat /\ ExistsBijection(1..Cardinality(S), S)
  BY FS_CardinalityType
<1>2. \E f \in [1..Cardinality(S) -> S] : IsInjective(f)
  BY <1>1 DEF ExistsBijection, Bijection, Injection, IsInjective
<1>3. SetToSeq(S) \in [1..Cardinality(S) -> S] /\ IsInjective(SetToSeq(S))
  BY <1>2 DEF SetToSeq
<1> QED BY <1>1, <1>3

(* So do the orders in which a finite set's elements may be served.        *)
LEMMA OrdersProperties ==
  ASSUME NEW S, NEW U, IsFiniteSet(S), U \subseteq S, NEW q \in Orders(U)
  PROVE  q \in Seq(S) /\ IsInjective(q)
<1>1. PICK part \in SUBSET U : q = SetToSeq(part)
  BY DEF Orders
<1>2. IsFiniteSet(part)
  BY FS_Subset
<1>3. SetToSeq(part) \in Seq(part) /\ IsInjective(SetToSeq(part))
  BY <1>2, SetToSeqProperties
<1>4. Seq(part) \subseteq Seq(S)
  OBVIOUS
<1> QED BY <1>1, <1>3, <1>4

(* The rest of an injective sequence is injective, without its head.       *)
LEMMA TailProperties ==
  ASSUME NEW S, NEW q \in Seq(S), q # <<>>, IsInjective(q)
  PROVE  /\ Head(q) \in S /\ Tail(q) \in Seq(S) /\ IsInjective(Tail(q))
         /\ Head(q) \in ToSet(q) /\ ToSet(Tail(q)) = ToSet(q) \ {Head(q)}
<1>1. Head(q) = q[1] /\ 1 \in DOMAIN q /\ Head(q) \in S /\ Tail(q) \in Seq(S)
  OBVIOUS
<1>2. /\ DOMAIN q = 1..Len(q) /\ Len(q) \in Nat \ {0}
      /\ DOMAIN Tail(q) = 1..(Len(q) - 1)
      /\ \A i \in DOMAIN Tail(q) : Tail(q)[i] = q[i + 1]
  OBVIOUS
<1>3. IsInjective(Tail(q))
  BY <1>2 DEF IsInjective
<1>4. \A x : x \in ToSet(Tail(q)) <=> x \in ToSet(q) /\ x # Head(q)
  <2>1. ASSUME NEW x \in ToSet(Tail(q)) PROVE x \in ToSet(q) /\ x # Head(q)
    <3>1. PICK i \in 1..(Len(q) - 1) : x = q[i + 1]
      BY <1>2 DEF ToSet
    <3>2. i + 1 \in DOMAIN q /\ i + 1 # 1
      BY <1>2
    <3> QED BY <1>1, <3>1, <3>2 DEF ToSet, IsInjective
  <2>2. ASSUME NEW x \in ToSet(q), x # Head(q) PROVE x \in ToSet(Tail(q))
    <3>1. PICK i \in 1..Len(q) : x = q[i]
      BY <1>2 DEF ToSet
    <3>2. i - 1 \in DOMAIN Tail(q) /\ Tail(q)[i - 1] = x
      BY <1>1, <1>2, <2>2, <3>1
    <3> QED BY <3>2 DEF ToSet
  <2> QED BY <2>1, <2>2
<1> QED BY <1>1, <1>3, <1>4 DEF ToSet

LEMMA CyclesInit == AgentLoopInit => Cycles
<1> SUFFICES ASSUME AgentLoopInit PROVE Cycles
  OBVIOUS
<1>1. <<>> \in Seq(Procedures) /\ <<>> \in Seq(Memories) /\ IsInjective(<<>>)
  BY DEF IsInjective
<1>2. NewCycle \in Cycle /\ NewCycle.phase = "new"
  BY <1>1 DEF NewCycle, Cycle
<1>3. [procs |-> <<>>, mems |-> <<>>] \in Serving
  BY <1>1 DEF Serving
<1>4. AgentTypes
  BY <1>2, <1>3 DEF AgentLoopInit, AgentTypes
<1>5. OneState
  BY <1>2 DEF AgentLoopInit, OneState, Active
<1>6. ToSet(<<>>) = {}
  BY DEF ToSet
<1>7. ASSUME NEW t \in Tasks PROVE CreditedSoFar(t)
  BY <1>2, <1>6 DEF AgentLoopInit, CreditedSoFar, Uncredited
<1> QED BY <1>4, <1>5, <1>7 DEF Cycles

(* What a step leaves alone of an undisturbed cycle keeps its credits.     *)
LEMMA OthersKeepCredits ==
  ASSUME Cycles, NEW t \in Tasks, t \notin disturbed,
         cycles'[t] = cycles[t], served'[t] = served[t],
         \A p \in Procedures : credits'[<<p, t>>] = credits[<<p, t>>],
         Active(t) => lastState' = lastState
  PROVE  CreditedSoFar(t)'
<1>1. CreditedSoFar(t) /\ served[t].procs \in Seq(Procedures)
      /\ cycles[t].todo \in Seq(Procedures)
  BY DEF Cycles, AgentTypes, Cycle, Serving
<1>2. ToSet(served[t].procs) \subseteq Procedures
      /\ ToSet(cycles[t].todo) \subseteq Procedures
  BY <1>1 DEF ToSet
<1> QED BY <1>1, <1>2 DEF CreditedSoFar, Uncredited, Active

(* The task that moves, and how, is all that a step of the cycles changes  *)
(* of them.                                                                *)
LEMMA PerceiveKeepsCycles ==
  ASSUME Cycles, NEW t \in Tasks, Perceive(t)
  PROVE  Cycles'
<1> USE DEF Cycles
<1>1. PICK procs \in Orders(Procedures), mems \in Orders({m \in Memories : revisions[m] > 0}) :
        served' = [served EXCEPT ![t] = [procs |-> procs, mems |-> mems]]
  BY DEF Perceive
<1>2. [procs |-> procs, mems |-> mems] \in Serving
  BY OrdersProperties, AgentLoopAssumption DEF Serving
<1>3. /\ cycles[t].phase = "new" /\ lastState' = t /\ UNCHANGED credits
      /\ disturbed' = IF AllActive = {} THEN disturbed
                      ELSE disturbed \cup AllActive \cup {t}
      /\ cycles' = [cycles EXCEPT ![t].phase = "acting"]
  BY DEF Perceive
<1>4. /\ cycles' \in [Tasks -> Cycle] /\ cycles'[t].phase = "acting"
      /\ \A u \in Tasks \ {t} : cycles'[u] = cycles[u] /\ served'[u] = served[u]
      /\ served' \in [Tasks -> Serving]
  <2>1. [cycles[t] EXCEPT !.phase = "acting"] \in Cycle
    <3>1. cycles[t] \in Cycle
      BY DEF AgentTypes
    <3> QED BY <3>1 DEF Cycle
  <2>2. cycles' \in [Tasks -> Cycle] /\ cycles'[t].phase = "acting"
    <3> DEFINE next == [cycles[t] EXCEPT !.phase = "acting"]
    <3>1. cycles' = [cycles EXCEPT ![t] = next]
      BY <1>3
    <3>2. next.phase = "acting"
      BY DEF AgentTypes, Cycle
    <3>3. next \in Cycle
      BY <2>1
    <3> HIDE DEF next
    <3> QED BY <3>1, <3>2, <3>3 DEF AgentTypes
  <2>3. \A u \in Tasks \ {t} : cycles'[u] = cycles[u] /\ served'[u] = served[u]
    BY <1>1, <1>3 DEF AgentTypes
  <2>4. served' \in [Tasks -> Serving]
    BY <1>1, <1>2 DEF AgentTypes
  <2> QED BY <2>2, <2>3, <2>4
<1>5. AgentTypes'
  BY <1>3, <1>4 DEF AgentTypes, AllActive
<1>6. /\ ~Active(t) /\ Active(t)' /\ disturbed \subseteq disturbed'
      /\ \A u \in Tasks \ {t} : Active(u)' <=> Active(u)
      /\ \A u \in Tasks \ {t} : Active(u) => u \in disturbed' /\ t \in disturbed'
  BY <1>3, <1>4 DEF Active, AllActive
<1>7. OneState'
  BY <1>3, <1>4, <1>6 DEF OneState, AgentTypes
<1>8. ASSUME NEW u \in Tasks \ {t}, u \notin disturbed' PROVE CreditedSoFar(u)'
  BY <1>3, <1>4, <1>6, <1>8, OthersKeepCredits
<1>9. ASSUME t \notin disturbed' PROVE CreditedSoFar(t)'
  <2>1. CreditedSoFar(t)
    BY <1>6, <1>9
  <2> QED BY <1>3, <1>4, <2>1 DEF CreditedSoFar, Uncredited
<1> QED BY <1>5, <1>7, <1>8, <1>9

LEMMA SummarizeKeepsCycles ==
  ASSUME Cycles, NEW t \in Tasks, Summarize(t)
  PROVE  Cycles'
<1> USE DEF Cycles
<1>1. PICK outcome \in Outcomes :
        cycles' = [cycles EXCEPT ![t].phase = "extract", ![t].outcome = outcome]
  BY DEF Summarize
<1>2. /\ cycles[t].phase \in {"new", "acting"} /\ UNCHANGED <<served, lastState, credits>>
      /\ disturbed' = IF AllActive \subseteq {t} THEN disturbed
                      ELSE disturbed \cup AllActive \cup {t}
  BY DEF Summarize
<1>3. cycles' = [cycles EXCEPT ![t] =
        [cycles[t] EXCEPT !.phase = "extract", !.outcome = outcome]]
  BY <1>1 DEF AgentTypes
<1>4. outcome \in {"completed", "partial", "failed"}
  BY AgentLoopAssumption
<1>5. /\ [cycles[t] EXCEPT !.phase = "extract", !.outcome = outcome] \in Cycle
      /\ [cycles[t] EXCEPT !.phase = "extract", !.outcome = outcome].phase = "extract"
  <2>1. cycles[t] \in Cycle
    BY DEF AgentTypes
  <2> QED BY <1>4, <2>1 DEF Cycle
<1>6. /\ cycles' \in [Tasks -> Cycle] /\ cycles'[t].phase = "extract"
      /\ \A u \in Tasks \ {t} : cycles'[u] = cycles[u]
  BY <1>3, <1>5 DEF AgentTypes
<1>7. AgentTypes'
  BY <1>2, <1>6 DEF AgentTypes, AllActive
<1>8. /\ Active(t)' /\ disturbed \subseteq disturbed'
      /\ \A u \in Tasks \ {t} : Active(u)' <=> Active(u)
      /\ \A u \in Tasks \ {t} : Active(u) => u \in disturbed' /\ t \in disturbed'
  BY <1>2, <1>6 DEF Active, AllActive
<1>9. OneState'
  BY <1>2, <1>6, <1>8 DEF OneState, AgentTypes
<1>10. ASSUME NEW u \in Tasks \ {t}, u \notin disturbed' PROVE CreditedSoFar(u)'
  BY <1>2, <1>6, <1>8, <1>10, OthersKeepCredits
<1>11. ASSUME t \notin disturbed' PROVE CreditedSoFar(t)'
  <2>1. CreditedSoFar(t)
    BY <1>8, <1>11
  <2>2. cycles[t].phase = "new" => lastState = NoTask
    <3>1. lastState # NoTask => lastState \in Tasks /\ Active(lastState)
      BY DEF OneState, AgentTypes
    <3>2. cycles[t].phase = "new" => ~Active(t)
      BY DEF Active
    <3> QED BY <3>1, <3>2, <1>8, <1>11
  <2>3. /\ Uncredited(t)
        /\ lastState = t \/ (lastState = NoTask /\ ToSet(served[t].procs) = {})
    BY <1>2, <2>1, <2>2 DEF CreditedSoFar
  <2>4. /\ Uncredited(t)'
        /\ lastState' = t \/ (lastState' = NoTask /\ ToSet(served[t].procs)' = {})
    BY <1>2, <2>3 DEF Uncredited
  <2> QED BY <1>6, <2>4 DEF CreditedSoFar
<1> QED BY <1>7, <1>9, <1>10, <1>11

LEMMA ReflectKeepsCycles ==
  ASSUME Cycles, NEW t \in Tasks, Reflect(t)
  PROVE  Cycles'
<1> USE DEF Cycles
<1> DEFINE next == [cycles[t] EXCEPT
             !.phase = IF lastState = NoTask THEN "episode" ELSE "credit",
             !.state = lastState,
             !.todo = IF lastState = NoTask THEN <<>> ELSE served[lastState].procs,
             !.rest = IF lastState = NoTask THEN <<>> ELSE served[lastState].mems]
<1>1. /\ cycles[t].phase = "extract" /\ cycles' = [cycles EXCEPT ![t] = next]
      /\ UNCHANGED <<served, lastState, credits, disturbed>>
  BY DEF Reflect
<1>2. <<>> \in Seq(Procedures) /\ <<>> \in Seq(Memories)
  OBVIOUS
<1>3. CASE lastState = NoTask
  <2>1. /\ next \in Cycle /\ next.phase = "episode" /\ next.outcome = cycles[t].outcome
    <3>1. next = [cycles[t] EXCEPT !.phase = "episode", !.state = NoTask,
                                   !.todo = <<>>, !.rest = <<>>]
      BY <1>3
    <3>2. cycles[t] \in Cycle
      BY DEF AgentTypes
    <3> HIDE DEF next
    <3> QED BY <1>2, <3>1, <3>2 DEF Cycle
  <2> HIDE DEF next
  <2>2. /\ cycles' \in [Tasks -> Cycle] /\ cycles'[t] = next
        /\ \A u \in Tasks \ {t} : cycles'[u] = cycles[u]
    BY <1>1, <2>1 DEF AgentTypes
  <2>3. AgentTypes'
    BY <1>1, <2>2 DEF AgentTypes
  <2>4. \A u \in Tasks : Active(u)' <=> Active(u)
    BY <1>1, <2>1, <2>2 DEF Active
  <2>5. OneState'
    BY <1>1, <2>1, <2>2, <2>4 DEF OneState, AgentTypes
  <2>6. ASSUME NEW u \in Tasks \ {t}, u \notin disturbed' PROVE CreditedSoFar(u)'
    BY <1>1, <2>2, <2>6, OthersKeepCredits
  <2>7. ASSUME t \notin disturbed' PROVE CreditedSoFar(t)'
    <3>1. ToSet(served[t].procs) = {}
      BY <1>1, <1>3, <2>7, NoTaskAssumption DEF CreditedSoFar
    <3> QED BY <1>1, <2>1, <2>2, <3>1 DEF CreditedSoFar
  <2> QED BY <2>3, <2>5, <2>6, <2>7
<1>4. CASE lastState # NoTask
  <2>1. /\ lastState \in Tasks /\ served[lastState] \in Serving
        /\ served[lastState].procs \in Seq(Procedures)
        /\ IsInjective(served[lastState].procs)
        /\ served[lastState].mems \in Seq(Memories)
    BY <1>4 DEF AgentTypes, Serving
  <2>2. /\ next \in Cycle /\ next.phase = "credit" /\ next.outcome = cycles[t].outcome
        /\ next.state = lastState /\ next.todo = served[lastState].procs
    <3>1. next = [cycles[t] EXCEPT !.phase = "credit", !.state = lastState,
                                   !.todo = served[lastState].procs,
                                   !.rest = served[lastState].mems]
      BY <1>4
    <3>2. cycles[t] \in Cycle
      BY DEF AgentTypes
    <3> HIDE DEF next
    <3> QED BY <2>1, <3>1, <3>2 DEF Cycle
  <2> HIDE DEF next
  <2>3. /\ cycles' \in [Tasks -> Cycle] /\ cycles'[t] = next
        /\ \A u \in Tasks \ {t} : cycles'[u] = cycles[u]
    BY <1>1, <2>2 DEF AgentTypes
  <2>4. AgentTypes'
    BY <1>1, <2>3 DEF AgentTypes
  <2>5. \A u \in Tasks : Active(u)' <=> Active(u)
    BY <1>1, <2>2, <2>3 DEF Active
  <2>6. Active(t) /\ Active(lastState)
    BY <1>1, <1>4 DEF Active, OneState
  <2>7. lastState # t => lastState \in disturbed
    BY <2>1, <2>6 DEF OneState
  <2>8. OneState'
    BY <1>1, <2>1, <2>2, <2>3, <2>5, <2>7 DEF OneState
  <2>9. ASSUME NEW u \in Tasks \ {t}, u \notin disturbed' PROVE CreditedSoFar(u)'
    BY <1>1, <2>3, <2>9, OthersKeepCredits
  <2>10. ASSUME t \notin disturbed' PROVE CreditedSoFar(t)'
    <3>1. lastState = t /\ Uncredited(t)
      BY <1>1, <1>4, <2>10 DEF CreditedSoFar
    <3>2. \A p \in ToSet(served[t].procs) : credits[<<p, t>>] = <<>>
      BY <2>1, <3>1 DEF Uncredited, ToSet
    <3> QED BY <1>1, <2>1, <2>2, <2>3, <3>1, <3>2 DEF CreditedSoFar
  <2> QED BY <2>4, <2>8, <2>9, <2>10
<1> QED BY <1>3, <1>4

(* One observation more for one procedure of the task's state.             *)
LEMMA CreditKeepsCycles ==
  ASSUME Cycles, NEW t \in Tasks, Credit(t)
  PROVE  Cycles'
<1> USE DEF Cycles
<1>1. /\ cycles[t].phase = "credit" /\ cycles[t] \in Cycle
      /\ UNCHANGED <<served, lastState, disturbed>>
  BY DEF Credit, AgentTypes
<1>2. ASSUME NEW next, next \in Cycle, next.phase \in {"credit", "weigh"},
             next.state = cycles[t].state, cycles' = [cycles EXCEPT ![t] = next],
             credits' \in [Procedures \X Tasks -> Seq(BOOLEAN)]
      PROVE  /\ AgentTypes' /\ OneState' /\ cycles'[t] = next
             /\ \A u \in Tasks \ {t} : cycles'[u] = cycles[u]
  <2>1. /\ cycles' \in [Tasks -> Cycle] /\ cycles'[t] = next
        /\ \A u \in Tasks \ {t} : cycles'[u] = cycles[u]
    BY <1>2 DEF AgentTypes
  <2>2. AgentTypes'
    BY <1>1, <1>2, <2>1 DEF AgentTypes
  <2>3. \A u \in Tasks : Active(u)' <=> Active(u)
    BY <1>1, <1>2, <2>1 DEF Active
  <2>4. OneState'
    BY <1>1, <1>2, <2>1, <2>3 DEF OneState, AgentTypes
  <2> QED BY <2>1, <2>2, <2>4
<1>3. CASE /\ cycles[t].todo = <<>> /\ UNCHANGED credits
           /\ cycles' = [cycles EXCEPT ![t].phase = "weigh"]
  <2> DEFINE next == [cycles[t] EXCEPT !.phase = "weigh"]
  <2>1. /\ next \in Cycle /\ next.phase = "weigh" /\ next.state = cycles[t].state
        /\ next.outcome = cycles[t].outcome
    BY <1>1 DEF Cycle
  <2>2. cycles' = [cycles EXCEPT ![t] = next]
    BY <1>3 DEF AgentTypes
  <2> HIDE DEF next
  <2>3. /\ AgentTypes' /\ OneState' /\ cycles'[t] = next
        /\ \A u \in Tasks \ {t} : cycles'[u] = cycles[u]
    BY <1>2, <1>3, <2>1, <2>2 DEF AgentTypes
  <2>4. ASSUME NEW u \in Tasks \ {t}, u \notin disturbed' PROVE CreditedSoFar(u)'
    BY <1>1, <1>3, <2>3, <2>4, OthersKeepCredits
  <2>5. ASSUME t \notin disturbed' PROVE CreditedSoFar(t)'
    <3>1. ToSet(cycles[t].todo) = {}
      BY <1>3 DEF ToSet
    <3>2. CreditedSoFar(t)
      BY <1>1, <2>5
    <3> QED BY <1>1, <1>3, <2>1, <2>3, <3>1, <3>2 DEF CreditedSoFar
  <2> QED BY <2>3, <2>4, <2>5
<1>4. CASE /\ cycles[t].todo # <<>>
           /\ cycles' = [cycles EXCEPT ![t].todo = Tail(cycles[t].todo)]
           /\ credits' = [credits EXCEPT ![<<Head(cycles[t].todo), cycles[t].state>>] =
                Append(credits[<<Head(cycles[t].todo), cycles[t].state>>],
                       cycles[t].outcome = "completed")]
  <2> DEFINE proc == Head(cycles[t].todo)
             owner == cycles[t].state
             next == [cycles[t] EXCEPT !.todo = Tail(cycles[t].todo)]
  <2>1. PICK success \in BOOLEAN : success = (cycles[t].outcome = "completed")
    OBVIOUS
  <2>2. cycles[t].todo \in Seq(Procedures) /\ owner \in Tasks
    BY <1>1 DEF OneState, Cycle
  <2>3. proc \in Procedures /\ Tail(cycles[t].todo) \in Seq(Procedures)
    BY <1>4, <2>2
  <2>4. /\ next \in Cycle /\ next.phase = "credit" /\ next.state = owner
        /\ next.outcome = cycles[t].outcome /\ next.todo = Tail(cycles[t].todo)
    BY <1>1, <2>3 DEF Cycle
  <2>5. cycles' = [cycles EXCEPT ![t] = next]
    BY <1>4 DEF AgentTypes
  <2>6. <<proc, owner>> \in Procedures \X Tasks
    BY <2>2, <2>3
  <2>7. credits' = [credits EXCEPT ![<<proc, owner>>] =
                      Append(credits[<<proc, owner>>], success)]
    BY <1>4, <2>1
  <2> HIDE DEF next, proc, owner
  <2>8. credits' \in [Procedures \X Tasks -> Seq(BOOLEAN)]
    <3>1. credits[<<proc, owner>>] \in Seq(BOOLEAN)
      BY <2>6 DEF AgentTypes
    <3>2. Append(credits[<<proc, owner>>], success) \in Seq(BOOLEAN)
      BY <3>1
    <3> QED BY <2>6, <2>7, <3>2 DEF AgentTypes
  <2>9. /\ AgentTypes' /\ OneState' /\ cycles'[t] = next
        /\ \A u \in Tasks \ {t} : cycles'[u] = cycles[u]
    BY <1>2, <2>4, <2>5, <2>8 DEF owner
  <2>10. /\ credits'[<<proc, owner>>] = Append(credits[<<proc, owner>>], success)
         /\ \A p \in Procedures, u \in Tasks : p # proc \/ u # owner =>
              credits'[<<p, u>>] = credits[<<p, u>>]
    BY <2>6, <2>7 DEF AgentTypes
  <2>11. ASSUME NEW u \in Tasks \ {t}, u \notin disturbed' PROVE CreditedSoFar(u)'
    <3>1. owner # u
      BY <1>1, <2>11 DEF OneState, owner
    <3> QED BY <1>1, <2>9, <2>10, <2>11, <3>1, OthersKeepCredits
  <2>12. ASSUME t \notin disturbed' PROVE CreditedSoFar(t)'
    <3>1. CreditedSoFar(t)
      BY <1>1, <2>12
    <3>2. /\ owner = t /\ IsInjective(cycles[t].todo)
          /\ \A p \in ToSet(cycles[t].todo) : credits[<<p, t>>] = <<>>
          /\ \A p \in ToSet(served[t].procs) \ ToSet(cycles[t].todo) :
               credits[<<p, t>>] = <<success>>
      BY <1>1, <2>1, <3>1 DEF CreditedSoFar, owner
    <3>3. /\ IsInjective(next.todo) /\ proc \in ToSet(cycles[t].todo)
          /\ ToSet(next.todo) = ToSet(cycles[t].todo) \ {proc}
      BY <1>4, <2>2, <2>4, <3>2, TailProperties DEF proc
    <3>4. Append(<<>>, success) = <<success>>
      OBVIOUS
    <3>5. credits'[<<proc, t>>] = <<success>>
      BY <2>10, <3>2, <3>3, <3>4
    <3>6. /\ ToSet(served[t].procs) \subseteq Procedures
          /\ ToSet(cycles[t].todo) \subseteq Procedures
      BY <2>2 DEF AgentTypes, Serving, ToSet
    <3>7. \A p \in ToSet(next.todo) : credits'[<<p, t>>] = <<>>
      BY <2>10, <3>2, <3>3, <3>6
    <3>8. \A p \in ToSet(served[t].procs) \ ToSet(next.todo) :
            credits'[<<p, t>>] = <<success>>
      BY <2>10, <3>2, <3>3, <3>5, <3>6
    <3> QED BY <1>1, <2>1, <2>4, <2>9, <3>2, <3>3, <3>7, <3>8 DEF CreditedSoFar
  <2> QED BY <2>9, <2>11, <2>12
<1> QED BY <1>3, <1>4 DEF Credit

(* The other steps of a task touch no credit.                              *)
LEMMA WeighKeepsCycles ==
  ASSUME Cycles, NEW t \in Tasks, Weigh(t)
  PROVE  Cycles'
<1> USE DEF Cycles
<1> DEFINE rest == cycles[t].rest
<1>1. /\ cycles[t].phase = "weigh" /\ cycles[t] \in Cycle
      /\ UNCHANGED <<served, lastState, credits, disturbed>>
  BY DEF Weigh, AgentTypes
<1>2. PICK next : /\ next \in {[cycles[t] EXCEPT !.phase = "episode"],
                               [cycles[t] EXCEPT !.rest = Tail(rest)]}
                  /\ next = [cycles[t] EXCEPT !.rest = Tail(rest)] => rest # <<>>
                       \/ next = [cycles[t] EXCEPT !.phase = "episode"]
                  /\ cycles' = [cycles EXCEPT ![t] = next]
  <2>1. CASE rest = <<>> /\ cycles' = [cycles EXCEPT ![t].phase = "episode"]
    BY <2>1 DEF AgentTypes
  <2>2. CASE rest # <<>> /\ cycles' = [cycles EXCEPT ![t].rest = Tail(rest)]
    BY <2>2 DEF AgentTypes
  <2> QED BY <2>1, <2>2 DEF Weigh, AfterHeadless
<1>3. rest # <<>> => Tail(rest) \in Seq(Memories)
  BY <1>1 DEF Cycle
<1>4. /\ next \in Cycle /\ next.phase \in {"weigh", "episode"}
      /\ next.outcome = cycles[t].outcome
  BY <1>1, <1>2, <1>3 DEF Cycle
<1>5. /\ cycles' \in [Tasks -> Cycle] /\ cycles'[t] = next
      /\ \A u \in Tasks \ {t} : cycles'[u] = cycles[u]
  BY <1>2, <1>4 DEF AgentTypes
<1>6. AgentTypes'
  BY <1>1, <1>5 DEF AgentTypes
<1>7. \A u \in Tasks : Active(u)' <=> Active(u)
  BY <1>1, <1>4, <1>5 DEF Active
<1>8. OneState'
  BY <1>1, <1>4, <1>5, <1>7 DEF OneState, AgentTypes
<1>9. ASSUME NEW u \in Tasks \ {t}, u \notin disturbed' PROVE CreditedSoFar(u)'
  BY <1>1, <1>5, <1>9, OthersKeepCredits
<1>10. ASSUME t \notin disturbed' PROVE CreditedSoFar(t)'
  BY <1>1, <1>4, <1>5, <1>10 DEF CreditedSoFar
<1> QED BY <1>6, <1>8, <1>9, <1>10

LEMMA KeepEpisodeKeepsCycles ==
  ASSUME Cycles, NEW t \in Tasks, KeepEpisode(t)
  PROVE  Cycles'
<1> USE DEF Cycles
<1> DEFINE next == [NewCycle EXCEPT !.phase = "done", !.outcome = cycles[t].outcome]
<1>1. /\ cycles[t].phase = "episode" /\ cycles[t] \in Cycle /\ lastState' = NoTask
      /\ UNCHANGED <<served, credits, disturbed>>
      /\ cycles' = [cycles EXCEPT ![t] = next]
  BY DEF KeepEpisode, Forgotten, AgentTypes
<1>2. <<>> \in Seq(Procedures) /\ <<>> \in Seq(Memories)
  OBVIOUS
<1>3. next \in Cycle /\ next.phase = "done" /\ next.outcome = cycles[t].outcome
  BY <1>1, <1>2 DEF NewCycle, Cycle
<1> HIDE DEF next
<1>4. /\ cycles' \in [Tasks -> Cycle] /\ cycles'[t] = next
      /\ \A u \in Tasks \ {t} : cycles'[u] = cycles[u]
  BY <1>1, <1>3 DEF AgentTypes
<1>5. AgentTypes'
  BY <1>1, <1>4 DEF AgentTypes
<1>6. Active(t) /\ ~Active(t)' /\ \A u \in Tasks \ {t} : Active(u)' <=> Active(u)
  BY <1>1, <1>3, <1>4 DEF Active
<1>7. OneState'
  BY <1>1, <1>3, <1>4, <1>6 DEF OneState
<1>8. ASSUME NEW u \in Tasks \ {t}, u \notin disturbed' PROVE CreditedSoFar(u)'
  <2>1. ~Active(u)
    BY <1>1, <1>6, <1>8 DEF OneState
  <2> QED BY <1>1, <1>4, <1>8, <2>1, OthersKeepCredits
<1>9. ASSUME t \notin disturbed' PROVE CreditedSoFar(t)'
  BY <1>1, <1>3, <1>4, <1>9 DEF CreditedSoFar
<1> QED BY <1>5, <1>7, <1>8, <1>9

LEMMA SummaryFailsKeepsCycles ==
  ASSUME Cycles, NEW t \in Tasks, SummaryFails(t)
  PROVE  Cycles'
<1> USE DEF Cycles
<1> DEFINE next == [NewCycle EXCEPT !.phase = "acting"]
<1>1. /\ cycles[t].phase \in {"extract", "credit", "weigh"}
      /\ disturbed' = disturbed \cup {t, lastState}
      /\ UNCHANGED <<served, lastState, credits>>
      /\ cycles' = [cycles EXCEPT ![t] = next]
  BY DEF SummaryFails
<1>2. <<>> \in Seq(Procedures) /\ <<>> \in Seq(Memories)
  OBVIOUS
<1>3. next \in Cycle /\ next.phase = "acting"
  BY <1>2 DEF NewCycle, Cycle
<1> HIDE DEF next
<1>4. /\ cycles' \in [Tasks -> Cycle] /\ cycles'[t] = next
      /\ \A u \in Tasks \ {t} : cycles'[u] = cycles[u]
  BY <1>1, <1>3 DEF AgentTypes
<1>5. AgentTypes'
  BY <1>1, <1>4 DEF AgentTypes
<1>6. \A u \in Tasks : Active(u)' <=> Active(u)
  BY <1>1, <1>3, <1>4 DEF Active
<1>7. OneState'
  BY <1>1, <1>3, <1>4, <1>6 DEF OneState, AgentTypes
<1>8. ASSUME NEW u \in Tasks \ {t}, u \notin disturbed' PROVE CreditedSoFar(u)'
  BY <1>1, <1>4, <1>8, OthersKeepCredits
<1> QED BY <1>1, <1>5, <1>7, <1>8

LEMMA CyclesStep == Cycles /\ [AgentLoopNext]_agentVars => Cycles'
<1> SUFFICES ASSUME Cycles, [AgentLoopNext]_agentVars PROVE Cycles'
  OBVIOUS
<1>1. CASE UNCHANGED <<cycles, served, lastState, credits, disturbed>>
  <2>1. AgentTypes'
    BY <1>1 DEF Cycles, AgentTypes
  <2>2. \A t \in Tasks : Active(t)' <=> Active(t)
    BY <1>1 DEF Active
  <2>3. OneState'
    BY <1>1, <2>2 DEF Cycles, OneState, AgentTypes
  <2>4. \A t \in Tasks \ disturbed' : CreditedSoFar(t)'
    BY <1>1, OthersKeepCredits
  <2> QED BY <2>1, <2>3, <2>4 DEF Cycles
<1>2. ASSUME NEW m \in Memories, HeadMoves(m) PROVE Cycles'
  BY <1>1, <1>2 DEF HeadMoves
<1>3. CASE UNCHANGED agentVars
  BY <1>1, <1>3 DEF agentVars
<1> QED BY <1>2, <1>3, PerceiveKeepsCycles, SummarizeKeepsCycles, ReflectKeepsCycles,
           CreditKeepsCycles, WeighKeepsCycles, KeepEpisodeKeepsCycles,
           SummaryFailsKeepsCycles
        DEF AgentLoopNext

LEMMA CyclesAlways == AgentLoopSpec => []Cycles
BY CyclesInit, CyclesStep, PTL DEF AgentLoopSpec

(* However tasks overlap and fail, a cycle that nothing disturbed credits   *)
(* each procedure it was served once and with its own outcome             *)
(* (post_task_summary, reflect_on_task).                                   *)
THEOREM UndisturbedCyclesCreditOnce == AgentLoopSpec => []CreditedOnce
<1>1. Cycles => CreditedOnce
  BY DEF Cycles, CreditedSoFar, CreditedOnce, Perceived
<1> QED BY <1>1, CyclesAlways, PTL

-----------------------------------------------------------------------------
(* The catalog.                                                            *)

Working == {"parent", "find", "update", "merge", "insert", "link", "relate"}
Phases == {"idle", "answered", "refused", "failed"} \cup Working

(* What a command or an import may have to write.                          *)
AnyRow ==
  Commands \cup {Command(row) : row \in UNION {RowsOfKind(b, FileKinds) : b \in Bundles}}

IsClient(client) ==
  /\ DOMAIN client = {"phase", "rows", "todo", "import", "alone"}
  /\ client.phase \in Phases
  /\ client.rows \in Seq(AnyRow) /\ client.todo \in Seq(AnyRow)
  /\ client.import \in BOOLEAN /\ client.alone \in BOOLEAN
  /\ client.phase \in Working => client.todo # <<>>

IsGraph(g) ==
  /\ DOMAIN g = {"nodes", "edges"}
  /\ \A n \in g.nodes : DOMAIN n = NodeFields

InFileOrder(rows) ==
  /\ \A i \in DOMAIN rows : rows[i].kind \in FileKinds
  /\ \A i, j \in DOMAIN rows : i < j =>
       /\ rows[i].kind = "relation" => rows[j].kind = "relation"
       /\ rows[j].kind = "project" => rows[i].kind = "project"

(* What ImportsAreWhole says of one row.                                   *)
RowIsWhole(g, rows, i) ==
  /\ rows[i].kind = "relation" => IsRelated(g, rows[i])
  /\ LastOfKind(rows, i) => NodeIsThere(g, rows[i]) /\ HangsFromParent(g, rows[i])

(* The rows that were written.                                             *)
Behind(client) == Len(client.rows) - Len(client.todo)

(* An import that nobody disturbed: the rows behind it are whole, and what *)
(* its phase takes for granted of the next one holds.                      *)
OnTheWay(g, client) ==
  /\ InFileOrder(client.rows)
  /\ Len(client.todo) <= Len(client.rows)
  /\ \A j \in DOMAIN client.todo : client.todo[j] = client.rows[Behind(client) + j]
  /\ \A i \in 1..Behind(client) : RowIsWhole(g, client.rows, i)
  /\ client.phase = "answered" <=> client.todo = <<>>
  /\ client.phase = "relate" => Head(client.todo).kind = "relation"
  /\ client.phase \notin {"answered", "relate"} => Head(client.todo).kind \in Kinds
  /\ client.phase = "link" =>
       Head(client.todo).kind # "project" /\ NodeIsThere(g, Head(client.todo))

Undisturbed(client) ==
  client.import /\ client.alone /\ client.phase \notin {"idle", "refused", "failed"}

Cataloging ==
  /\ IsGraph(graph)
  /\ \A c \in CatalogClients :
       IsClient(clients[c]) /\ (Undisturbed(clients[c]) => OnTheWay(graph, clients[c]))

(* A change of nodes of one kind.                                          *)
ChangesOnly(g, h, kind) ==
  /\ h.edges = g.edges
  /\ \A n : n.kind # kind => (n \in g.nodes <=> n \in h.nodes)
LEMMA UpdatesItsKind ==
  ASSUME NEW g, NEW row, IsGraph(g), \E n \in g.nodes : Meets(n, row)
  PROVE  /\ IsGraph(Updated(g, row)) /\ ChangesOnly(g, Updated(g, row), row.kind)
         /\ NodeIsThere(Updated(g, row), row)
<1> DEFINE h == Updated(g, row)
           Put(n) == IF Meets(n, row) THEN Written(n, row) ELSE n
<1>1. ASSUME NEW n \in g.nodes
      PROVE  /\ DOMAIN Written(n, row) = NodeFields
             /\ Written(n, row).kind = n.kind
             /\ Written(n, row).slug = row.slug /\ Written(n, row).name = row.name
  BY DEF IsGraph, Written, NodeFields
<1>2. DOMAIN h = {"nodes", "edges"} /\ h.edges = g.edges /\ h.nodes = {Put(n) : n \in g.nodes}
  BY DEF Updated, IsGraph
<1> HIDE DEF h
<1>3. \A n : n.kind # row.kind => (n \in g.nodes <=> n \in h.nodes)
  BY <1>1, <1>2 DEF Meets
<1>4. IsGraph(h)
  BY <1>1, <1>2 DEF IsGraph
<1>5. NodeIsThere(h, row)
  BY <1>1, <1>2 DEF NodeIsThere, Meets
<1> QED BY <1>2, <1>3, <1>4, <1>5 DEF ChangesOnly, h
LEMMA OverwritesItsKind ==
  ASSUME NEW g, NEW row, IsGraph(g), SameName(g, row) # {}
  PROVE  /\ IsGraph(Overwritten(g, row)) /\ ChangesOnly(g, Overwritten(g, row), row.kind)
         /\ NodeIsThere(Overwritten(g, row), row)
<1> DEFINE h == Overwritten(g, row)
           Put(n) == IF n \in SameName(g, row) THEN Written(n, row) ELSE n
<1>1. ASSUME NEW n \in g.nodes
      PROVE  /\ DOMAIN Written(n, row) = NodeFields
             /\ Written(n, row).kind = n.kind
             /\ Written(n, row).slug = row.slug /\ Written(n, row).name = row.name
  BY DEF IsGraph, Written, NodeFields
<1>2. DOMAIN h = {"nodes", "edges"} /\ h.edges = g.edges /\ h.nodes = {Put(n) : n \in g.nodes}
  BY DEF Overwritten, IsGraph
<1> HIDE DEF h
<1>3. \A n : n.kind # row.kind => (n \in g.nodes <=> n \in h.nodes)
  BY <1>1, <1>2 DEF SameName
<1>4. IsGraph(h)
  BY <1>1, <1>2 DEF IsGraph
<1>5. NodeIsThere(h, row)
  BY <1>1, <1>2 DEF NodeIsThere, SameName
<1> QED BY <1>2, <1>3, <1>4, <1>5 DEF ChangesOnly, h
LEMMA InsertsItsKind ==
  ASSUME NEW g, NEW row, IsGraph(g)
  PROVE  /\ IsGraph(Inserted(g, row)) /\ ChangesOnly(g, Inserted(g, row), row.kind)
         /\ NodeIsThere(Inserted(g, row), row)
<1> DEFINE h == Inserted(g, row)
           key == CHOOSE k \in FreeKeys(g) : \A j \in FreeKeys(g) : k <= j
           node == [key |-> key, kind |-> row.kind, id |-> row.id, slug |-> row.slug,
                    name |-> row.name, scope |-> row.scope, remembered |-> FALSE]
<1>1. DOMAIN h = {"nodes", "edges"} /\ h.edges = g.edges /\ h.nodes = g.nodes \cup {node}
  BY DEF Inserted, IsGraph
<1> HIDE DEF key
<1>2. /\ DOMAIN node = NodeFields /\ node.kind = row.kind
      /\ node.slug = row.slug /\ node.name = row.name
  BY DEF NodeFields
<1> HIDE DEF h, node
<1>3. \A n : n.kind # row.kind => (n \in g.nodes <=> n \in h.nodes)
  BY <1>1, <1>2
<1>4. IsGraph(h)
  BY <1>1, <1>2 DEF IsGraph
<1>5. NodeIsThere(h, row)
  BY <1>1, <1>2 DEF NodeIsThere
<1> QED BY <1>1, <1>3, <1>4, <1>5 DEF ChangesOnly, h

(* A row that is whole stays so while a later row writes its node, since a *)
(* later row of another kind than the last comes after it in the files.    *)
LEMMA WholeThroughNodes ==
  ASSUME NEW g, NEW h, NEW rows, InFileOrder(rows),
         NEW i \in DOMAIN rows, NEW k \in DOMAIN rows, i < k,
         rows[k].kind \in Kinds, ChangesOnly(g, h, rows[k].kind), RowIsWhole(g, rows, i)
  PROVE  RowIsWhole(h, rows, i)
<1>1. rows[i].kind # "relation"
  BY DEF InFileOrder, Kinds
<1>2. CASE ~LastOfKind(rows, i)
  BY <1>1, <1>2 DEF RowIsWhole
<1>3. CASE LastOfKind(rows, i)
  <2>1. rows[i].kind # rows[k].kind
    BY <1>3 DEF LastOfKind
  <2>2. NodeIsThere(g, rows[i]) /\ HangsFromParent(g, rows[i])
    BY <1>3 DEF RowIsWhole
  <2>3. NodeIsThere(h, rows[i])
    BY <2>1, <2>2 DEF NodeIsThere, ChangesOnly
  <2>4. ASSUME rows[i].kind # "project" PROVE ParentEdges(h, rows[i]) = ParentEdges(g, rows[i])
    <3>1. rows[k].kind # "project"
      BY <2>4 DEF InFileOrder
    <3>2. Called(h, "project", rows[i].scope) = Called(g, "project", rows[i].scope)
      BY <3>1 DEF Called, ChangesOnly
    <3>3. {n \in h.nodes : Meets(n, rows[i])} = {n \in g.nodes : Meets(n, rows[i])}
      BY <2>1 DEF Meets, ChangesOnly
    <3> QED BY <3>2, <3>3 DEF ParentEdges
  <2> QED BY <1>1, <2>2, <2>3, <2>4 DEF RowIsWhole, HangsFromParent, ChangesOnly
<1> QED BY <1>2, <1>3

LEMMA WholeThroughEdges ==
  ASSUME NEW g, NEW h, h.nodes = g.nodes, g.edges \subseteq h.edges,
         NEW rows, NEW i, RowIsWhole(g, rows, i)
  PROVE  RowIsWhole(h, rows, i)
<1>1. RelationEdges(h, rows[i]) = RelationEdges(g, rows[i])
  BY DEF RelationEdges, Called
<1>2. ParentEdges(h, rows[i]) = ParentEdges(g, rows[i])
  BY DEF ParentEdges, Called
<1> QED BY <1>1, <1>2 DEF RowIsWhole, IsRelated, NodeIsThere, HangsFromParent

(* The next row of an import, which is the first of those to do.           *)
LEMMA NextRow ==
  ASSUME NEW g, NEW client, IsClient(client), OnTheWay(g, client), client.phase # "answered"
  PROVE  /\ Behind(client) \in Nat /\ Behind(client) + 1 \in DOMAIN client.rows
         /\ Head(client.todo) = client.rows[Behind(client) + 1]
         /\ client.todo # <<>>
         /\ \A i \in 1..Behind(client) : i \in DOMAIN client.rows /\ i < Behind(client) + 1
<1>1. client.rows \in Seq(AnyRow) /\ client.todo \in Seq(AnyRow) /\ client.todo # <<>>
  BY DEF IsClient, OnTheWay
<1>2. Len(client.todo) <= Len(client.rows) /\ 1 \in DOMAIN client.todo
  BY <1>1 DEF OnTheWay
<1>3. client.todo[1] = client.rows[Behind(client) + 1]
  BY <1>2 DEF OnTheWay
<1>4. Len(client.rows) \in Nat /\ Len(client.todo) \in Nat /\ Len(client.todo) > 0
  BY <1>1
<1>5. Behind(client) \in Nat /\ Behind(client) + 1 <= Len(client.rows)
  BY <1>2, <1>4 DEF Behind
<1>6. DOMAIN client.rows = 1..Len(client.rows) /\ Head(client.todo) = client.todo[1]
  BY <1>1
<1> QED BY <1>1, <1>3, <1>4, <1>5, <1>6

(* A row is done when it is whole, and the rows before it still are.       *)
LEMMA RowPasses ==
  ASSUME NEW g, NEW h, NEW client, IsClient(client), OnTheWay(g, client),
         client.phase # "answered",
         \A i \in 1..Behind(client) + 1 : RowIsWhole(h, client.rows, i)
  PROVE  OnTheWay(h, RowDone(client))
<1> DEFINE next == RowDone(client)
           rest == Tail(client.todo)
<1>1. client.rows \in Seq(AnyRow) /\ client.todo \in Seq(AnyRow) /\ client.todo # <<>>
  BY NextRow DEF IsClient
<1>2. /\ next.rows = client.rows /\ next.todo = rest
      /\ next.phase = IF rest = <<>> THEN "answered" ELSE FirstPhase(Head(rest))
  BY DEF RowDone, IsClient
<1> HIDE DEF next
<1>3. /\ rest \in Seq(AnyRow) /\ Len(rest) = Len(client.todo) - 1
      /\ \A j \in DOMAIN rest : rest[j] = client.todo[j + 1] /\ j + 1 \in DOMAIN client.todo
  BY <1>1
<1> HIDE DEF rest
<1>4. Len(rest) <= Len(next.rows) /\ Behind(next) = Behind(client) + 1 /\ Behind(client) \in Nat
  <2>1. Len(client.rows) \in Nat /\ Len(client.todo) \in Nat /\ Len(client.todo) > 0
    BY <1>1
  <2>2. Len(client.todo) <= Len(client.rows)
    BY DEF OnTheWay
  <2>3. Len(rest) = Len(client.todo) - 1 /\ next.rows = client.rows /\ next.todo = rest
    BY <1>2, <1>3
  <2>4. Len(next.rows) = Len(client.rows) /\ Len(next.todo) = Len(client.todo) - 1
    BY <2>3
  <2>5. Len(rest) <= Len(next.rows)
    BY <2>1, <2>2, <2>3, <2>4
  <2>6. Behind(next) = Behind(client) + 1
    BY <2>1, <2>4 DEF Behind
  <2>7. Behind(client) \in Nat
    BY <2>1, <2>2 DEF Behind
  <2> QED BY <2>5, <2>6, <2>7
<1>5. \A j \in DOMAIN rest : rest[j] = client.rows[Behind(next) + j]
  <2> SUFFICES ASSUME NEW j \in DOMAIN rest
               PROVE  rest[j] = client.rows[Behind(next) + j]
    OBVIOUS
  <2>1. j \in Nat
    BY <1>3
  <2>2. rest[j] = client.rows[Behind(client) + (j + 1)]
    BY <1>3 DEF OnTheWay
  <2>3. Behind(next) + j = Behind(client) + (j + 1)
    BY <1>4, <2>1
  <2> QED BY <2>2, <2>3
<1>6. ASSUME rest # <<>>
      PROVE  Head(rest).kind \in FileKinds
  <2>1. 1 \in DOMAIN rest /\ Head(rest) = rest[1]
    BY <1>3, <1>6
  <2>2. Behind(next) + 1 \in DOMAIN client.rows
    <3>1. Behind(next) + 1 <= Len(client.rows)
      BY <1>1, <1>2, <1>3, <2>1 DEF Behind
    <3> QED BY <1>1, <1>4, <3>1
  <2> QED BY <1>5, <2>1, <2>2 DEF OnTheWay, InFileOrder
<1>7. /\ next.phase = "answered" <=> rest = <<>>
      /\ next.phase = "relate" => Head(rest).kind = "relation"
      /\ next.phase \notin {"answered", "relate"} => Head(rest).kind \in Kinds
      /\ next.phase # "link"
  BY <1>2, <1>6 DEF FirstPhase, FileKinds
<1> QED BY <1>2, <1>4, <1>5, <1>7 DEF OnTheWay, next

LEMMA ClientsOfRows ==
  ASSUME NEW client, IsClient(client)
  PROVE  /\ client.todo # <<>> => IsClient(RowDone(client))
         /\ IsClient(Refused(client)) /\ ~Undisturbed(Refused(client))
         /\ RowDone(client).import = client.import /\ RowDone(client).alone = client.alone
<1> DEFINE rest == Tail(client.todo)
           phase == IF rest = <<>> THEN "answered" ELSE FirstPhase(Head(rest))
<1>1. client.todo # <<>> => rest \in Seq(AnyRow)
  BY DEF IsClient
<1>2. phase \in Phases /\ (phase \in Working => rest # <<>>)
  BY DEF FirstPhase, Phases, Working
<1>3. RowDone(client) = [client EXCEPT !.todo = rest, !.phase = phase]
  BY DEF RowDone
<1> HIDE DEF rest, phase
<1>4. /\ client.todo # <<>> => IsClient(RowDone(client))
      /\ RowDone(client).import = client.import /\ RowDone(client).alone = client.alone
  BY <1>1, <1>2, <1>3 DEF IsClient
<1>5. IsClient(Refused(client)) /\ ~Undisturbed(Refused(client))
  BY DEF IsClient, Refused, Phases, Working, Undisturbed
<1> QED BY <1>4, <1>5

LEMMA ClientsInPhase ==
  ASSUME NEW client, IsClient(client), client.todo # <<>>, NEW phase \in Phases
  PROVE  LET next == [client EXCEPT !.phase = phase]
         IN /\ IsClient(next) /\ next.phase = phase
            /\ next.import = client.import /\ next.alone = client.alone
            /\ next.rows = client.rows /\ next.todo = client.todo
BY DEF IsClient

LEMMA Appending ==
  ASSUME NEW S, NEW s \in Seq(S), NEW t \in Seq(S)
  PROVE  /\ s \o t \in Seq(S) /\ Len(s \o t) = Len(s) + Len(t)
         /\ \A i \in DOMAIN (s \o t) :
              IF i <= Len(s) THEN i \in DOMAIN s /\ (s \o t)[i] = s[i]
              ELSE i - Len(s) \in DOMAIN t /\ (s \o t)[i] = t[i - Len(s)]
OBVIOUS

(* The four files, one after the other.                                    *)
LEMMA FilesInOrder ==
  ASSUME NEW bundle \in Bundles
  PROVE  /\ CommandsOf(InOrder(bundle)) \in Seq(AnyRow)
         /\ InFileOrder(CommandsOf(InOrder(bundle)))
<1> DEFINE p == bundle["project"]  c == bundle["category"]
           d == bundle["domain"]   r == bundle["relation"]
           S == RowsOfKind(bundle, FileKinds)
           all == InOrder(bundle)
<1>1. ASSUME NEW kind \in FileKinds
      PROVE  /\ bundle[kind] \in Seq(S)
             /\ \A i \in DOMAIN bundle[kind] : bundle[kind][i].kind = kind
  <2>1. bundle[kind] \in Seq(ToSet(bundle[kind])) /\ \A row \in ToSet(bundle[kind]) : row.kind = kind
    BY <1>1, CatalogAssumption
  <2>2. ToSet(bundle[kind]) \subseteq S
    BY <1>1 DEF RowsOfKind
  <2> QED BY <2>1, <2>2 DEF ToSet
<1>2. /\ p \in Seq(S) /\ c \in Seq(S) /\ d \in Seq(S) /\ r \in Seq(S)
      /\ \A i \in DOMAIN p : p[i].kind = "project"
      /\ \A i \in DOMAIN c : c[i].kind = "category"
      /\ \A i \in DOMAIN d : d[i].kind = "domain"
      /\ \A i \in DOMAIN r : r[i].kind = "relation"
  BY <1>1 DEF FileKinds, Kinds
<1>3. all = ((p \o c) \o d) \o r
  BY DEF InOrder
<1> HIDE DEF p, c, d, r, S, all
<1> DEFINE pc == p \o c
           pcd == pc \o d
<1>4. /\ pc \in Seq(S) /\ Len(pc) = Len(p) + Len(c)
      /\ \A i \in DOMAIN pc : pc[i].kind = IF i <= Len(p) THEN "project" ELSE "category"
  BY <1>2, Appending
<1> HIDE DEF pc, pcd
<1>5. /\ pcd \in Seq(S) /\ Len(pcd) = Len(pc) + Len(d)
      /\ \A i \in DOMAIN pcd : IF i <= Len(pc) THEN i \in DOMAIN pc /\ pcd[i] = pc[i]
                               ELSE pcd[i].kind = "domain"
  <2>1. pcd = pc \o d
    BY DEF pcd
  <2>2. /\ pcd \in Seq(S) /\ Len(pcd) = Len(pc) + Len(d)
        /\ \A i \in DOMAIN pcd :
             IF i <= Len(pc) THEN i \in DOMAIN pc /\ pcd[i] = pc[i]
             ELSE i - Len(pc) \in DOMAIN d /\ pcd[i] = d[i - Len(pc)]
    <3>1. pc \in Seq(S) /\ d \in Seq(S)
      BY <1>2, <1>4
    <3> QED BY <2>1, <3>1, Appending
  <2>3. \A i \in DOMAIN d : d[i].kind = "domain"
    BY <1>2
  <2> QED BY <2>2, <2>3
<1>6. /\ all \in Seq(S) /\ Len(all) = Len(pcd) + Len(r)
      /\ \A i \in DOMAIN all : IF i <= Len(pcd) THEN i \in DOMAIN pcd /\ all[i] = pcd[i]
                               ELSE all[i].kind = "relation"
  <2>1. all = pcd \o r
    BY <1>3 DEF pc, pcd
  <2> QED BY <1>2, <1>5, <2>1, Appending
<1>7. ASSUME NEW i \in DOMAIN all
      PROVE  /\ all[i].kind = IF i <= Len(p) THEN "project" ELSE IF i <= Len(pc) THEN "category"
                              ELSE IF i <= Len(pcd) THEN "domain" ELSE "relation"
             /\ i \in Nat
  BY <1>2, <1>4, <1>5, <1>6
<1>8. Len(p) <= Len(pc) /\ Len(pc) <= Len(pcd) /\ {Len(p), Len(pc), Len(pcd)} \subseteq Nat
  BY <1>2, <1>4, <1>5
<1>9. InFileOrder(all)
  <2>1. \A i \in DOMAIN all : all[i].kind \in FileKinds
    BY <1>7 DEF FileKinds, Kinds
  <2> QED BY <1>7, <1>8, <2>1 DEF InFileOrder
<1>10. ASSUME NEW row PROVE Command(row).kind = row.kind
  BY DEF Command, NodeRow
<1>11. /\ DOMAIN CommandsOf(all) = DOMAIN all
       /\ \A i \in DOMAIN all : CommandsOf(all)[i] = Command(all[i])
  BY DEF CommandsOf
<1>12. CommandsOf(all) \in Seq(AnyRow)
  <2>1. \A i \in DOMAIN all : Command(all[i]) \in AnyRow
    BY <1>6 DEF AnyRow, S
  <2>2. DOMAIN all = 1..Len(all) /\ Len(all) \in Nat
    BY <1>6
  <2> QED BY <2>1, <2>2 DEF CommandsOf
<1>13. InFileOrder(CommandsOf(all))
  BY <1>9, <1>10, <1>11 DEF InFileOrder
<1> QED BY <1>12, <1>13 DEF all

(* A step of c, of the catalog or of its own record only.                  *)
LEMMA OneClientSteps ==
  ASSUME Cataloging, NEW c \in CatalogClients, NEW client, ClientStep(c, client), graph' = graph,
         IsClient(client), Undisturbed(client) => OnTheWay(graph, client)
  PROVE  Cataloging'
<1>1. ASSUME NEW x \in CatalogClients
      PROVE  IsClient(clients'[x]) /\ (Undisturbed(clients'[x]) => OnTheWay(graph, clients'[x]))
  BY DEF ClientStep, Cataloging
<1> QED BY <1>1 DEF Cataloging

LEMMA OneClientChanges ==
  ASSUME Cataloging, NEW c \in CatalogClients, NEW client, NEW g, ChangeBy(c, client, g),
         IsGraph(g), IsClient(client), Undisturbed(client) => OnTheWay(g, client)
  PROVE  Cataloging'
<1>1. ASSUME NEW x \in CatalogClients
      PROVE  IsClient(clients'[x]) /\ (Undisturbed(clients'[x]) => OnTheWay(g, clients'[x]))
  <2>1. CASE x = c
    BY <2>1 DEF ChangeBy
  <2>2. CASE x # c
    <3>1. clients'[x] = [clients[x] EXCEPT !.alone = FALSE]
      BY <2>2 DEF ChangeBy
    <3> QED BY <3>1 DEF Cataloging, IsClient, Undisturbed
  <2> QED BY <2>1, <2>2
<1> QED BY <1>1 DEF Cataloging, ChangeBy

(* A step that only moves on within the row.                               *)
LEMMA PhaseMoves ==
  ASSUME NEW g, NEW client, IsClient(client), client.phase \in {"parent", "find", "merge"},
         NEW phase \in {"find", "update", "merge", "insert"},
         Undisturbed(client) => OnTheWay(g, client)
  PROVE  LET next == [client EXCEPT !.phase = phase]
         IN IsClient(next) /\ (Undisturbed(next) => OnTheWay(g, next))
<1> DEFINE next == [client EXCEPT !.phase = phase]
<1>1. client.todo # <<>> /\ phase \in Phases
  BY DEF IsClient, Working, Phases
<1>2. /\ IsClient(next) /\ next.phase = phase
      /\ next.import = client.import /\ next.alone = client.alone
      /\ next.rows = client.rows /\ next.todo = client.todo
  BY <1>1, ClientsInPhase
<1> HIDE DEF next
<1>3. Behind(next) = Behind(client)
  BY <1>2 DEF Behind
<1>4. ASSUME Undisturbed(next) PROVE OnTheWay(g, next)
  <2>1. Undisturbed(client)
    BY <1>2, <1>4 DEF Undisturbed
  <2> QED BY <1>2, <1>3, <2>1 DEF OnTheWay
<1> QED BY <1>2, <1>4 DEF next

(* A row writes its node.                                                  *)
LEMMA NodeWritten ==
  ASSUME Cataloging, NEW c \in CatalogClients, NEW h,
         clients[c].phase \in {"update", "merge", "insert"},
         ChangesOnly(graph, h, Todo(c).kind), NodeIsThere(h, Todo(c))
  PROVE  IsClient(AfterNode(c)) /\ (Undisturbed(AfterNode(c)) => OnTheWay(h, AfterNode(c)))
<1> DEFINE client == clients[c]
           row == Todo(c)
           at == Behind(client) + 1
<1>1. IsClient(client) /\ client.todo # <<>>
  BY DEF Cataloging, IsClient, Working
<1>2. ASSUME Undisturbed(client)
      PROVE  /\ OnTheWay(graph, client) /\ at \in DOMAIN client.rows /\ row = client.rows[at]
             /\ row.kind \in Kinds
             /\ \A i \in 1..Behind(client) : RowIsWhole(h, client.rows, i)
             /\ Behind(client) \in Nat
  <2>1. OnTheWay(graph, client) /\ client.phase # "answered"
    BY <1>2 DEF Cataloging
  <2>2. /\ Behind(client) \in Nat /\ at \in DOMAIN client.rows /\ row = client.rows[at]
        /\ \A i \in 1..Behind(client) : i \in DOMAIN client.rows /\ i < at
    BY <1>1, <2>1, NextRow DEF Todo
  <2>3. row.kind \in Kinds
    BY <2>1 DEF OnTheWay, Todo
  <2>4. \A i \in 1..Behind(client) : RowIsWhole(h, client.rows, i)
    BY <2>1, <2>2, <2>3, WholeThroughNodes DEF OnTheWay
  <2> QED BY <2>1, <2>2, <2>3, <2>4
<1>3. CASE row.kind = "project"
  <2>1. AfterNode(c) = RowDone(client)
    BY <1>3 DEF AfterNode
  <2>2. ASSUME Undisturbed(RowDone(client)) PROVE OnTheWay(h, RowDone(client))
    <3>1. Undisturbed(client)
      BY <1>1, <2>2, ClientsOfRows DEF Undisturbed
    <3>2. RowIsWhole(h, client.rows, at)
      BY <1>2, <1>3, <3>1 DEF RowIsWhole, HangsFromParent
    <3>3. \A i \in 1..Behind(client) + 1 : RowIsWhole(h, client.rows, i)
      BY <1>2, <3>1, <3>2
    <3> QED BY <1>1, <1>2, <3>1, <3>3, RowPasses
  <2> QED BY <1>1, <2>1, <2>2, ClientsOfRows
<1>4. CASE row.kind # "project"
  <2> DEFINE next == [client EXCEPT !.phase = "link"]
  <2>1. AfterNode(c) = next
    BY <1>4 DEF AfterNode
  <2>2. /\ IsClient(next) /\ next.phase = "link"
        /\ next.import = client.import /\ next.alone = client.alone
        /\ next.rows = client.rows /\ next.todo = client.todo
    BY <1>1, ClientsInPhase DEF Phases, Working
  <2> HIDE DEF next
  <2>3. Behind(next) = Behind(client)
    BY <2>2 DEF Behind
  <2>4. ASSUME Undisturbed(next) PROVE OnTheWay(h, next)
    <3>1. Undisturbed(client)
      BY <2>2, <2>4 DEF Undisturbed
    <3> QED BY <1>2, <1>4, <2>2, <2>3, <3>1 DEF OnTheWay, Todo
  <2> QED BY <2>1, <2>2, <2>4
<1> QED BY <1>3, <1>4

(* A row, with the edges it joins, is done.                                *)
LEMMA RowLinked ==
  ASSUME Cataloging, NEW c \in CatalogClients, NEW edges,
         clients[c].phase \in {"link", "relate"},
         edges # {},
         edges = IF clients[c].phase = "link" THEN ParentEdges(graph, Todo(c))
                 ELSE RelationEdges(graph, Todo(c))
  PROVE  LET h == Joined(graph, edges)
             next == RowDone(clients[c])
         IN IsGraph(h) /\ IsClient(next) /\ (Undisturbed(next) => OnTheWay(h, next))
<1> DEFINE h == Joined(graph, edges)
           client == clients[c]
           row == Todo(c)
           at == Behind(client) + 1
<1>1. IsClient(client) /\ client.todo # <<>>
  BY DEF Cataloging, IsClient, Working
<1>2. h.nodes = graph.nodes /\ h.edges = graph.edges \cup edges /\ IsGraph(h)
  BY DEF Cataloging, IsGraph, Joined
<1> HIDE DEF h
<1>3. RelationEdges(h, row) = RelationEdges(graph, row) /\ ParentEdges(h, row) = ParentEdges(graph, row)
  BY <1>2 DEF RelationEdges, ParentEdges, Called
<1>4. ASSUME Undisturbed(RowDone(client)) PROVE OnTheWay(h, RowDone(client))
  <2>1. Undisturbed(client)
    BY <1>1, <1>4, ClientsOfRows DEF Undisturbed
  <2>2. OnTheWay(graph, client) /\ client.phase # "answered"
    BY <2>1 DEF Cataloging
  <2>3. Behind(client) \in Nat /\ at \in DOMAIN client.rows /\ row = client.rows[at]
    BY <1>1, <2>2, NextRow DEF Todo
  <2>4. \A i \in 1..Behind(client) : RowIsWhole(h, client.rows, i)
    BY <1>2, <2>2, WholeThroughEdges DEF OnTheWay
  <2>5. RowIsWhole(h, client.rows, at)
    <3>1. CASE client.phase = "link"
      <4>1. row.kind \in Kinds /\ NodeIsThere(graph, row)
        BY <2>2, <3>1 DEF OnTheWay, Todo
      <4>2. NodeIsThere(h, row) /\ HangsFromParent(h, row)
        BY <1>2, <1>3, <3>1, <4>1 DEF NodeIsThere, HangsFromParent
      <4> QED BY <2>3, <4>1, <4>2 DEF RowIsWhole, Kinds
    <3>2. CASE client.phase = "relate"
      <4>1. row.kind = "relation"
        BY <2>2, <3>2 DEF OnTheWay, Todo
      <4>2. IsRelated(h, row)
        BY <1>2, <1>3, <3>2 DEF IsRelated
      <4> QED BY <2>3, <4>1, <4>2 DEF RowIsWhole, LastOfKind, Kinds
    <3> QED BY <3>1, <3>2
  <2>6. \A i \in 1..Behind(client) + 1 : RowIsWhole(h, client.rows, i)
    BY <2>3, <2>4, <2>5
  <2> QED BY <1>1, <2>2, <2>6, RowPasses
<1> QED BY <1>1, <1>2, <1>4, ClientsOfRows DEF h

LEMMA RowsBegin ==
  ASSUME NEW c, NEW rows \in Seq(AnyRow), NEW import \in BOOLEAN
  PROVE  LET begun == BeginRows(c, rows, import)
         IN /\ IsClient(begun) /\ IsClient(Refused(begun)) /\ ~Undisturbed(Refused(begun))
            /\ begun.import = import
            /\ InFileOrder(rows) => \A g : OnTheWay(g, begun)
<1> DEFINE begun == BeginRows(c, rows, import)
           phase == IF rows = <<>> THEN "answered" ELSE FirstPhase(Head(rows))
<1>1. /\ DOMAIN begun = {"phase", "rows", "todo", "import", "alone"}
      /\ begun.phase = phase /\ begun.rows = rows /\ begun.todo = rows
      /\ begun.import = import /\ begun.alone \in BOOLEAN
  BY DEF BeginRows, NoClient
<1> HIDE DEF begun
<1>2. phase \in Phases /\ (phase \in Working => rows # <<>>)
  BY DEF FirstPhase, Phases, Working
<1>3. IsClient(begun)
  BY <1>1, <1>2 DEF IsClient
<1>4. ASSUME InFileOrder(rows), NEW g PROVE OnTheWay(g, begun)
  <2>1. Behind(begun) = 0 /\ Len(rows) \in Nat
    BY <1>1 DEF Behind
  <2>2. ASSUME rows # <<>> PROVE Head(rows).kind \in FileKinds
    <3>1. 1 \in DOMAIN rows /\ Head(rows) = rows[1]
      BY <2>2
    <3> QED BY <1>4, <3>1 DEF InFileOrder
  <2>3. /\ phase = "answered" <=> rows = <<>>
        /\ phase = "relate" => Head(rows).kind = "relation"
        /\ phase \notin {"answered", "relate"} => Head(rows).kind \in Kinds
        /\ phase # "link"
    BY <2>2 DEF FirstPhase, FileKinds
  <2>4. \A j \in DOMAIN begun.todo : begun.todo[j] = begun.rows[Behind(begun) + j]
    BY <1>1, <2>1
  <2> HIDE DEF phase
  <2> QED BY <1>1, <1>4, <2>1, <2>3, <2>4 DEF OnTheWay
<1> QED BY <1>1, <1>3, <1>4, ClientsOfRows DEF begun

LEMMA CatalogingInitially == ASSUME CatalogInit PROVE Cataloging
<1>1. IsGraph(graph)
  BY CatalogAssumption DEF CatalogInit, IsGraph
<1>2. IsClient(NoClient) /\ ~Undisturbed(NoClient)
  BY DEF NoClient, IsClient, Undisturbed, Phases, Working
<1> QED BY <1>1, <1>2 DEF CatalogInit, Cataloging

(* One step per action.                                                    *)
LEMMA CatalogingStep == ASSUME Cataloging, [CatalogNext]_catalogVars PROVE Cataloging'
<1>1. IsGraph(graph)
  BY DEF Cataloging
<1>2. ASSUME NEW c \in CatalogClients
      PROVE  /\ IsClient(clients[c]) /\ (Undisturbed(clients[c]) => OnTheWay(graph, clients[c]))
             /\ IsClient(Refused(clients[c])) /\ ~Undisturbed(Refused(clients[c]))
  BY <1>2, ClientsOfRows DEF Cataloging
<1>3. ASSUME NEW c \in CatalogClients, NEW row \in Commands, StartCommand(c, row)
      PROVE  Cataloging'
  <2>1. <<row>> \in Seq(AnyRow)
    BY DEF AnyRow
  <2> DEFINE begun == BeginRows(c, <<row>>, FALSE)
  <2>2. IsClient(begun) /\ ~Undisturbed(begun)
    BY <2>1, RowsBegin DEF Undisturbed
  <2>3. ClientStep(c, begun) /\ graph' = graph
    BY <1>3 DEF StartCommand
  <2> HIDE DEF begun
  <2> QED BY <2>2, <2>3, OneClientSteps
<1>4. ASSUME NEW c \in CatalogClients, NEW bundle \in Bundles, StartImport(c, bundle)
      PROVE  Cataloging'
  <2> DEFINE begun == BeginRows(c, CommandsOf(InOrder(bundle)), TRUE)
             client == IF Accepted(graph, bundle) THEN begun ELSE Refused(begun)
  <2>1. ClientStep(c, client) /\ graph' = graph
    BY <1>4 DEF StartImport
  <2>2. /\ IsClient(begun) /\ IsClient(Refused(begun)) /\ ~Undisturbed(Refused(begun))
        /\ OnTheWay(graph, begun)
    BY FilesInOrder, RowsBegin
  <2> HIDE DEF begun
  <2> QED BY <2>1, <2>2, OneClientSteps
<1>5. ASSUME NEW c \in CatalogClients, FindParent(c) PROVE Cataloging'
  <2> DEFINE found == [clients[c] EXCEPT !.phase = "find"]
             client == IF Called(graph, "project", Todo(c).scope) = {}
                       THEN Refused(clients[c]) ELSE found
  <2>1. ClientStep(c, client) /\ graph' = graph /\ clients[c].phase = "parent"
    BY <1>5 DEF FindParent
  <2>2. IsClient(found) /\ (Undisturbed(found) => OnTheWay(graph, found))
    BY <1>2, <2>1, PhaseMoves
  <2> HIDE DEF found
  <2> QED BY <1>2, <2>1, <2>2, OneClientSteps
<1>6. ASSUME NEW c \in CatalogClients, FindNode(c) PROVE Cataloging'
  <2> DEFINE phase == IF \E n \in graph.nodes : Meets(n, Todo(c)) THEN "update" ELSE "merge"
             client == [clients[c] EXCEPT !.phase = phase]
  <2>1. ClientStep(c, client) /\ graph' = graph /\ clients[c].phase = "find"
    BY <1>6 DEF FindNode
  <2>2. phase \in {"update", "merge"}
    OBVIOUS
  <2> HIDE DEF phase
  <2>3. IsClient(client) /\ (Undisturbed(client) => OnTheWay(graph, client))
    BY <1>2, <2>1, <2>2, PhaseMoves
  <2> HIDE DEF client
  <2> QED BY <2>1, <2>3, OneClientSteps
<1>7. ASSUME NEW c \in CatalogClients, UpdateNode(c) PROVE Cataloging'
  <2>1. CASE \E n \in graph.nodes : Meets(n, Todo(c))
    <3> DEFINE h == Updated(graph, Todo(c))
    <3>1. ChangeBy(c, AfterNode(c), h) /\ clients[c].phase = "update"
      BY <1>7, <2>1 DEF UpdateNode
    <3>2. IsGraph(h) /\ ChangesOnly(graph, h, Todo(c).kind) /\ NodeIsThere(h, Todo(c))
      BY <1>1, <2>1, UpdatesItsKind
    <3> HIDE DEF h
    <3>3. IsClient(AfterNode(c)) /\ (Undisturbed(AfterNode(c)) => OnTheWay(h, AfterNode(c)))
      BY <3>1, <3>2, NodeWritten
    <3> QED BY <3>1, <3>2, <3>3, OneClientChanges
  <2>2. CASE ~\E n \in graph.nodes : Meets(n, Todo(c))
    <3>1. ClientStep(c, Refused(clients[c])) /\ graph' = graph
      BY <1>7, <2>2 DEF UpdateNode
    <3> QED BY <1>2, <3>1, OneClientSteps
  <2> QED BY <2>1, <2>2
<1>8. ASSUME NEW c \in CatalogClients, MergeNode(c) PROVE Cataloging'
  <2>1. CASE SameName(graph, Todo(c)) # {}
    <3> DEFINE h == Overwritten(graph, Todo(c))
    <3>1. ChangeBy(c, AfterNode(c), h) /\ clients[c].phase = "merge"
      BY <1>8, <2>1 DEF MergeNode
    <3>2. IsGraph(h) /\ ChangesOnly(graph, h, Todo(c).kind) /\ NodeIsThere(h, Todo(c))
      BY <1>1, <2>1, OverwritesItsKind
    <3> HIDE DEF h
    <3>3. IsClient(AfterNode(c)) /\ (Undisturbed(AfterNode(c)) => OnTheWay(h, AfterNode(c)))
      BY <3>1, <3>2, NodeWritten
    <3> QED BY <3>1, <3>2, <3>3, OneClientChanges
  <2>2. CASE SameName(graph, Todo(c)) = {}
    <3> DEFINE client == [clients[c] EXCEPT !.phase = "insert"]
    <3>1. ClientStep(c, client) /\ graph' = graph /\ clients[c].phase = "merge"
      BY <1>8, <2>2 DEF MergeNode
    <3>2. IsClient(client) /\ (Undisturbed(client) => OnTheWay(graph, client))
      BY <1>2, <3>1, PhaseMoves
    <3> HIDE DEF client
    <3> QED BY <3>1, <3>2, OneClientSteps
  <2> QED BY <2>1, <2>2
<1>9. ASSUME NEW c \in CatalogClients, InsertNode(c) PROVE Cataloging'
  <2> DEFINE h == Inserted(graph, Todo(c))
  <2>1. ChangeBy(c, AfterNode(c), h) /\ clients[c].phase = "insert"
    BY <1>9 DEF InsertNode
  <2>2. IsGraph(h) /\ ChangesOnly(graph, h, Todo(c).kind) /\ NodeIsThere(h, Todo(c))
    BY <1>1, InsertsItsKind
  <2> HIDE DEF h
  <2>3. IsClient(AfterNode(c)) /\ (Undisturbed(AfterNode(c)) => OnTheWay(h, AfterNode(c)))
    BY <2>1, <2>2, NodeWritten
  <2> QED BY <2>1, <2>2, <2>3, OneClientChanges
<1>10. ASSUME NEW c \in CatalogClients, LinkParent(c) PROVE Cataloging'
  <2> DEFINE edges == ParentEdges(graph, Todo(c))
             h == Joined(graph, edges)
  <2>1. CASE edges # {}
    <3>1. ChangeBy(c, RowDone(clients[c]), h) /\ clients[c].phase = "link"
      BY <1>10, <2>1 DEF LinkParent
    <3>2. /\ IsGraph(h) /\ IsClient(RowDone(clients[c]))
          /\ Undisturbed(RowDone(clients[c])) => OnTheWay(h, RowDone(clients[c]))
      BY <2>1, <3>1, RowLinked
    <3> HIDE DEF h
    <3> QED BY <3>1, <3>2, OneClientChanges
  <2>2. CASE edges = {}
    <3>1. ClientStep(c, Refused(clients[c])) /\ graph' = graph
      BY <1>10, <2>2 DEF LinkParent
    <3> QED BY <1>2, <3>1, OneClientSteps
  <2> QED BY <2>1, <2>2
<1>11. ASSUME NEW c \in CatalogClients, RelateNodes(c) PROVE Cataloging'
  <2> DEFINE edges == RelationEdges(graph, Todo(c))
             h == Joined(graph, edges)
  <2>1. CASE Todo(c).type \in Relationships /\ edges # {}
    <3>1. ChangeBy(c, RowDone(clients[c]), h) /\ clients[c].phase = "relate"
      BY <1>11, <2>1 DEF RelateNodes
    <3>2. /\ IsGraph(h) /\ IsClient(RowDone(clients[c]))
          /\ Undisturbed(RowDone(clients[c])) => OnTheWay(h, RowDone(clients[c]))
      BY <2>1, <3>1, RowLinked
    <3> HIDE DEF h
    <3> QED BY <3>1, <3>2, OneClientChanges
  <2>2. CASE ~(Todo(c).type \in Relationships /\ edges # {})
    <3>1. ClientStep(c, Refused(clients[c])) /\ graph' = graph
      BY <1>11, <2>2 DEF RelateNodes
    <3> QED BY <1>2, <3>1, OneClientSteps
  <2> QED BY <2>1, <2>2
<1>12. ASSUME NEW c \in CatalogClients, CatalogFails(c) PROVE Cataloging'
  <2> DEFINE client == [clients[c] EXCEPT !.phase = "failed"]
  <2>1. ClientStep(c, client) /\ graph' = graph
    BY <1>12 DEF CatalogFails
  <2>2. IsClient(client) /\ ~Undisturbed(client)
    BY <1>2 DEF IsClient, Undisturbed, Phases, Working
  <2> HIDE DEF client
  <2> QED BY <2>1, <2>2, OneClientSteps
<1>13. IsClient(NoClient) /\ ~Undisturbed(NoClient)
  BY DEF NoClient, IsClient, Undisturbed, Phases, Working
<1>14. ASSUME NEW c \in CatalogClients, NEW row, UnlinkNodes(c, row) PROVE Cataloging'
  <2> DEFINE h == [graph EXCEPT !.edges = @ \ RelationEdges(graph, row)]
  <2>1. ChangeBy(c, NoClient, h)
    BY <1>14 DEF UnlinkNodes
  <2>2. IsGraph(h)
    BY <1>1 DEF IsGraph
  <2> HIDE DEF h
  <2> QED BY <1>13, <2>1, <2>2, OneClientChanges
<1>15. ASSUME NEW c \in CatalogClients, NEW kind, NEW ref, DeleteNodes(c, kind, ref)
       PROVE  Cataloging'
  <2>1. PICK h : ChangeBy(c, NoClient, h) /\ IsGraph(h)
    <3> DEFINE gone == {n \in Called(graph, kind, ref) : ~n.remembered}
               keys == {n.key : n \in gone}
               h == [nodes |-> graph.nodes \ gone,
                     edges |-> {e \in graph.edges : e.from \notin keys /\ e.to \notin keys}]
    <3>1. ChangeBy(c, NoClient, h)
      BY <1>15 DEF DeleteNodes
    <3>2. IsGraph(h)
      BY <1>1 DEF IsGraph
    <3> HIDE DEF h
    <3> QED BY <3>1, <3>2
  <2> QED BY <1>13, <2>1, OneClientChanges
<1>16. CASE UNCHANGED catalogVars
  <2>1. graph' = graph /\ clients' = clients
    BY <1>16 DEF catalogVars
  <2> QED BY <2>1 DEF Cataloging
<1> QED
  BY <1>3, <1>4, <1>5, <1>6, <1>7, <1>8, <1>9, <1>10, <1>11, <1>12, <1>14, <1>15, <1>16
  DEF CatalogNext

(* An import that answered left what its files say: each relation between  *)
(* nodes that its ends name, and the last node of each kind under its slug *)
(* and name, linked to its parent, as long as nobody else changed the      *)
(* catalog meanwhile (import_catalog_csv_bundle).                          *)
THEOREM ImportsBringAllRows == CatalogSpec => []ImportsAreWhole
<1>1. CatalogSpec => []Cataloging
  BY CatalogingInitially, CatalogingStep, PTL DEF CatalogSpec
<1>2. Cataloging => ImportsAreWhole
  <2> SUFFICES ASSUME Cataloging, NEW c \in CatalogClients,
                      clients[c].phase = "answered", clients[c].import, clients[c].alone,
                      NEW i \in DOMAIN clients[c].rows
               PROVE  RowIsWhole(graph, clients[c].rows, i)
    BY DEF ImportsAreWhole, RowIsWhole
  <2>1. IsClient(clients[c]) /\ OnTheWay(graph, clients[c])
    BY DEF Cataloging, Undisturbed
  <2>2. clients[c].rows \in Seq(AnyRow) /\ clients[c].todo = <<>>
    BY <2>1 DEF IsClient, OnTheWay
  <2>3. i \in 1..Behind(clients[c])
    BY <2>2 DEF Behind
  <2> QED BY <2>1, <2>3 DEF OnTheWay
<1> QED BY <1>1, <1>2, PTL

-----------------------------------------------------------------------------
(* Searches.                                                               *)

LEMMA SmallestNumber ==
  ASSUME NEW T, T \subseteq Nat, T # {}
  PROVE  \E x \in T : \A y \in T : x <= y
<1>1. PICK x \in T : \A y \in T : ~ (<<y, x>> \in OpToRel(<, Nat))
  BY NatLessThanWellFounded, WFMin
<1>2. ASSUME NEW y \in T PROVE x <= y
  <2>1. <<y, x>> \in Nat \X Nat /\ ~(<<y, x>> \in OpToRel(<, Nat))
    BY <1>1
  <2>2. ~(y < x)
    BY <2>1 DEF OpToRel
  <2>3. x \in Nat /\ y \in Nat
    BY <1>1
  <2> QED BY <2>2, <2>3
<1> QED BY <1>2

(* Induction up to a number, over the set of those for which it holds.     *)
LEMMA CountingUp ==
  ASSUME NEW n \in Nat, NEW T, 0 \in T, \A k \in 1..n : k - 1 \in T => k \in T
  PROVE  0..n \subseteq T
<1> DEFINE Bad == (0..n) \ T
<1> SUFFICES ASSUME Bad # {} PROVE FALSE
  OBVIOUS
<1>1. Bad \subseteq Nat
  OBVIOUS
<1>2. PICK k \in Bad : \A j \in Bad : k <= j
  <2> HIDE DEF Bad
  <2> QED BY <1>1, SmallestNumber
<1>3. k \in 1..n /\ k - 1 \in 0..n /\ ~(k <= k - 1)
  BY <1>2
<1>4. k - 1 \in T
  BY <1>2, <1>3
<1> QED BY <1>2, <1>3, <1>4

(* What a search reads: a memory and the revision that is told of it.      *)
Told == [mem : Found, rev : Nat \ {0}]

SearchTypes ==
  /\ versions \in [Found -> [last : Nat \ {0}, live : BOOLEAN]]
  /\ points \in [Found -> Nat]
  /\ DOMAIN search = DOMAIN NoSearch
  /\ {search.dense, search.sparse, search.rows} \subseteq Seq(Told)

IsExact(item) ==
  item.title = Now(item.mem) /\ item.title # 0 /\ item.body \in {0, item.title}

(* While nothing moves, whatever was read is the head of its memory.       *)
CalmReadings ==
  search.calm =>
    /\ \A m \in Found : points[m] = Now(m)
    /\ \A row \in Rows : row.rev = Now(row.mem)
    /\ \A item \in ToSet(search.answer) : IsExact(item)

Searching == SearchTypes /\ CalmReadings

LEMMA WithinKeeps ==
  ASSUME NEW S, NEW s \in Seq(S), NEW set
  PROVE  Within(s, set) \in Seq(S \cap set)
<1> DEFINE At(f, n) == IF n = 0 THEN <<>>
                       ELSE IF s[n] \in set THEN Append(f[n - 1], s[n]) ELSE f[n - 1]
           Defined(k) == \E f : f = [n \in 0..k |-> At(f, n)]
           upTo == CHOOSE f : f = [n \in 0..Len(s) |-> At(f, n)]
<1>1. Len(s) \in Nat
  OBVIOUS
<1>2. Defined(Len(s))
  <2> DEFINE T == {k \in Nat : Defined(k)}
  <2>1. 0 \in T
    <3> DEFINE f == [n \in 0..0 |-> <<>>]
    <3>1. f = [n \in 0..0 |-> At(f, n)]
      OBVIOUS
    <3> QED BY <3>1
  <2>2. ASSUME NEW k \in 1..Len(s), k - 1 \in T PROVE k \in T
    <3>1. PICK f : f = [n \in 0..(k - 1) |-> At(f, n)]
      BY <2>2
    <3> DEFINE g == [n \in 0..k |-> IF n = k THEN At(f, k) ELSE f[n]]
    <3>2. ASSUME NEW n \in 0..k PROVE g[n] = At(g, n)
      <4>1. CASE n = k
        BY <2>2, <4>1
      <4>2. CASE n # k
        <5>1. k \in Nat /\ n \in 0..(k - 1) /\ (n # 0 => n - 1 \in 0..(k - 1) /\ n - 1 # k)
          BY <2>2, <4>2
        <5>2. f[n] = At(f, n) /\ g[n] = f[n]
          BY <3>1, <4>2, <5>1
        <5>3. n # 0 => g[n - 1] = f[n - 1]
          BY <3>1, <5>1
        <5> QED BY <5>2, <5>3
      <4> QED BY <4>1, <4>2
    <3>3. g = [n \in 0..k |-> At(g, n)]
      BY <3>2
    <3> HIDE DEF g
    <3>4. Defined(k)
      BY <3>3
    <3> HIDE DEF Defined
    <3> QED BY <2>2, <3>4
  <2> HIDE DEF T
  <2>3. 0..Len(s) \subseteq T
    BY <1>1, <2>1, <2>2, CountingUp
  <2>4. Len(s) \in T
    BY <1>1, <2>3
  <2> QED BY <2>4 DEF T
<1>3. upTo = [n \in 0..Len(s) |-> At(upTo, n)]
  BY <1>2
<1> HIDE DEF upTo
<1>4. \A n \in 0..Len(s) : upTo[n] = At(upTo, n)
  BY <1>3
<1>5. upTo[Len(s)] \in Seq(S \cap set)
  <2> DEFINE T == {n \in 0..Len(s) : upTo[n] \in Seq(S \cap set)}
  <2>1. 0 \in T
    <3>1. 0 \in 0..Len(s)
      BY <1>1
    <3>2. upTo[0] = <<>>
      BY <1>4, <3>1
    <3>3. <<>> \in Seq(S \cap set)
      OBVIOUS
    <3> QED BY <3>1, <3>2, <3>3
  <2>2. ASSUME NEW k \in 1..Len(s), k - 1 \in T PROVE k \in T
    <3>1. s[k] \in S /\ k # 0 /\ k \in 0..Len(s)
      BY <2>2
    <3>2. upTo[k] = At(upTo, k)
      BY <1>4, <3>1
    <3>3. upTo[k - 1] \in Seq(S \cap set)
      BY <2>2
    <3>4. upTo[k] \in Seq(S \cap set)
      BY <3>1, <3>2, <3>3
    <3> QED BY <3>1, <3>4
  <2> HIDE DEF T
  <2>3. 0..Len(s) \subseteq T
    BY <1>1, <2>1, <2>2, CountingUp
  <2>4. Len(s) \in T
    BY <1>1, <2>3
  <2> QED BY <2>4 DEF T
<1>6. Within(s, set) = upTo[Len(s)]
  BY DEF Within, upTo
<1> QED BY <1>5, <1>6

LEMMA ElementsOf ==
  ASSUME NEW S, NEW s \in Seq(S)
  PROVE  ToSet(s) \subseteq S
<1>1. \A i \in DOMAIN s : s[i] \in S
  OBVIOUS
<1> QED BY <1>1 DEF ToSet

LEMMA CutKeeps ==
  ASSUME NEW S, NEW s \in Seq(S), NEW n \in Nat
  PROVE  Cut(s, n) \in Seq(S)
BY DEF Cut

LEMMA RankIsPosition ==
  ASSUME NEW list \in Seq(Found), NEW m \in ToSet(list)
  PROVE  RankOf(list, m) \in DOMAIN list /\ list[RankOf(list, m)] = m
<1> DEFINE I == {i \in 1..Len(list) : list[i] = m}
<1>1. I # {} /\ I \subseteq Nat
  BY DEF ToSet
<1>2. RankOf(list, m) = Min(I)
  BY <1>1 DEF RankOf, SelectInSeq
<1>3. Min(I) \in I
  <2> HIDE DEF I
  <2>1. \E x \in I : \A y \in I : x <= y
    BY <1>1, SmallestNumber
  <2> QED BY <2>1 DEF Min
<1> QED BY <1>2, <1>3

LEMMA RevisionsTold ==
  ASSUME NEW rows \in Seq(Told), NEW m
  PROVE  \/ RevIn(rows, m) = 0 /\ \A row \in ToSet(rows) : row.mem # m
         \/ \E row \in ToSet(rows) : row.mem = m /\ RevIn(rows, m) = row.rev
<1>1. IdsOf(rows) \in Seq(Found) /\ DOMAIN IdsOf(rows) = DOMAIN rows
  <2>1. DOMAIN rows = 1..Len(rows) /\ Len(rows) \in Nat /\ \A i \in DOMAIN rows : rows[i] \in Told
    OBVIOUS
  <2>2. \A i \in DOMAIN rows : rows[i].mem \in Found
    BY <2>1 DEF Told
  <2> QED BY <2>1, <2>2 DEF IdsOf
<1>2. \A i \in DOMAIN rows : IdsOf(rows)[i] = rows[i].mem
  BY DEF IdsOf
<1>3. CASE m \in ToSet(IdsOf(rows))
  <2> DEFINE k == RankOf(IdsOf(rows), m)
  <2>1. k \in DOMAIN rows /\ rows[k].mem = m
    BY <1>1, <1>2, <1>3, RankIsPosition
  <2>2. RevIn(rows, m) = rows[k].rev
    BY <1>3 DEF RevIn
  <2> HIDE DEF k
  <2> QED BY <2>1, <2>2 DEF ToSet
<1>4. CASE m \notin ToSet(IdsOf(rows))
  BY <1>1, <1>2, <1>4 DEF RevIn, ToSet
<1> QED BY <1>3, <1>4

(* The rows of the ledger are of live heads.                               *)
LEMMA LedgerRows ==
  ASSUME SearchTypes
  PROVE  /\ GraphRows \in Seq(Told)
         /\ \A row \in ToSet(GraphRows) : row.rev = Now(row.mem)
<1> DEFINE alive == {m \in Found : versions[m].live}
           live == Within(Recorded, alive)
           Head0(m) == [mem |-> m, rev |-> Now(m)]
           heads == {Head0(m) : m \in alive}
           all == [i \in DOMAIN live |-> Head0(live[i])]
<1>1. live \in Seq(Found \cap alive)
  BY SearchAssumption, WithinKeeps
<1>2. GraphRows = Cut(all, Limit)
  BY DEF GraphRows
<1> HIDE DEF live
<1>3. all \in Seq(heads)
  BY <1>1
<1> HIDE DEF all
<1>4. Limit \in Nat
  BY SearchAssumption DEF Limit
<1>5. GraphRows \in Seq(heads)
  BY <1>2, <1>3, <1>4, CutKeeps
<1>6. heads \subseteq Told
  BY DEF SearchTypes, Told, Now
<1>7. \A row \in heads : row.rev = Now(row.mem)
  OBVIOUS
<1> HIDE DEF heads
<1>8. GraphRows \in Seq(Told) /\ ToSet(GraphRows) \subseteq heads
  BY <1>5, <1>6 DEF ToSet
<1> QED BY <1>7, <1>8

(* The points that Qdrant finds.                                           *)
LEMMA PointsFound ==
  ASSUME SearchTypes, NEW s \in Hits
  PROVE  /\ RowsOf(s) \in Seq(Told)
         /\ \A row \in ToSet(RowsOf(s)) : row.mem \in Found /\ row.rev = points[row.mem]
<1>1. PICK n \in 0..Limit : s \in [1..n -> {m \in Found : points[m] > 0}]
  BY DEF Hits
<1>2. n \in Nat
  BY SearchAssumption DEF Limit
<1>3. \A i \in 1..n : s[i] \in Found /\ points[s[i]] \in Nat \ {0}
  BY <1>1 DEF SearchTypes
<1>4. RowsOf(s) = [i \in 1..n |-> [mem |-> s[i], rev |-> points[s[i]]]]
  BY <1>1 DEF RowsOf
<1>5. RowsOf(s) \in [1..n -> Told]
  BY <1>3, <1>4 DEF Told
<1> QED BY <1>2, <1>3, <1>4, <1>5 DEF ToSet

(* What is made of readings that were exact.                               *)
LEMMA ItemsAreExact ==
  ASSUME Searching, search.calm, NEW m \in Served
  PROVE  IsExact(Item(m)) /\ Item(m).mem = m
<1>1. /\ search.dense \in Seq(Told) /\ search.sparse \in Seq(Told) /\ search.rows \in Seq(Told)
      /\ \A row \in Rows : row.rev = Now(row.mem) /\ row.rev # 0
  <2>1. search.dense \in Seq(Told) /\ search.sparse \in Seq(Told) /\ search.rows \in Seq(Told)
    BY DEF Searching, SearchTypes
  <2>2. Rows \subseteq Told
    BY <2>1, ElementsOf DEF Rows
  <2>3. \A row \in Rows : row.rev = Now(row.mem)
    BY DEF Searching, CalmReadings
  <2> QED BY <2>1, <2>2, <2>3 DEF Told
<1>2. PICK row \in Rows : row.mem = m
  BY DEF Served
<1>3. ASSUME NEW rows \in {search.dense, search.sparse, search.rows}
      PROVE  \/ RevIn(rows, m) = 0 /\ \A other \in ToSet(rows) : other.mem # m
             \/ RevIn(rows, m) = Now(m) /\ Now(m) \in Nat \ {0}
  <2>1. rows \in Seq(Told) /\ ToSet(rows) \subseteq Rows
    BY <1>1, <1>3 DEF Rows
  <2>2. \A other \in ToSet(rows) : other.rev \in Nat \ {0}
    <3>1. ToSet(rows) \subseteq Told
      BY <2>1, ElementsOf
    <3> QED BY <3>1 DEF Told
  <2>3. CASE RevIn(rows, m) = 0 /\ \A other \in ToSet(rows) : other.mem # m
    BY <2>3
  <2>4. CASE \E other \in ToSet(rows) : other.mem = m /\ RevIn(rows, m) = other.rev
    <3>1. PICK other \in ToSet(rows) : other.mem = m /\ RevIn(rows, m) = other.rev
      BY <2>4
    <3>2. other \in Rows /\ other.rev \in Nat \ {0}
      BY <2>1, <2>2
    <3> QED BY <1>1, <3>1, <3>2
  <2> QED BY <2>1, <2>3, <2>4, RevisionsTold
<1>4. /\ Item(m).mem = m /\ Item(m).body = RevIn(search.rows, m)
      /\ Item(m).title = IF RevIn(search.dense, m) > 0 THEN RevIn(search.dense, m)
                         ELSE IF RevIn(search.sparse, m) > 0 THEN RevIn(search.sparse, m)
                         ELSE RevIn(search.rows, m)
  BY DEF Item
<1>5. \/ RevIn(search.dense, m) = Now(m) \/ RevIn(search.sparse, m) = Now(m)
      \/ RevIn(search.rows, m) = Now(m)
  BY <1>2, <1>3 DEF Rows
<1>6. /\ RevIn(search.dense, m) \in {0, Now(m)} /\ RevIn(search.sparse, m) \in {0, Now(m)}
      /\ RevIn(search.rows, m) \in {0, Now(m)} /\ Now(m) \in Nat \ {0}
  <2>1. ASSUME NEW rows \in {search.dense, search.sparse, search.rows}
        PROVE  RevIn(rows, m) \in {0, Now(m)} /\ (RevIn(rows, m) # 0 => Now(m) \in Nat \ {0})
    BY <1>3, <2>1
  <2>2. /\ RevIn(search.dense, m) \in {0, Now(m)} /\ RevIn(search.sparse, m) \in {0, Now(m)}
        /\ RevIn(search.rows, m) \in {0, Now(m)}
    BY <2>1
  <2>3. Now(m) \in Nat \ {0}
    <3>1. PICK rows \in {search.dense, search.sparse, search.rows} :
            \E other \in ToSet(rows) : other.mem = m
      BY <1>2 DEF Rows
    <3> QED BY <1>3, <3>1
  <2> QED BY <2>2, <2>3
<1>7. Item(m).title = Now(m) /\ Item(m).body \in {0, Now(m)}
  BY <1>4, <1>5, <1>6
<1> QED BY <1>4, <1>6, <1>7 DEF IsExact

LEMMA SearchingInitially == ASSUME SearchInit PROVE Searching
BY DEF SearchInit, Searching, SearchTypes, CalmReadings, NoSearch

(* One step per action.                                                    *)
LEMMA SearchingStep == ASSUME Searching, [SearchNext]_searchVars PROVE Searching'
<1> USE DEF Searching
<1>1. /\ versions \in [Found -> [last : Nat \ {0}, live : BOOLEAN]] /\ points \in [Found -> Nat]
      /\ DOMAIN search = DOMAIN NoSearch
      /\ search.dense \in Seq(Told) /\ search.sparse \in Seq(Told) /\ search.rows \in Seq(Told)
  BY DEF SearchTypes
<1>2. "calm" \in DOMAIN search
  BY <1>1 DEF NoSearch
<1>3. ASSUME search' = [search EXCEPT !.calm = FALSE]
      PROVE  /\ CalmReadings' /\ DOMAIN search' = DOMAIN NoSearch
             /\ {search'.dense, search'.sparse, search'.rows} \subseteq Seq(Told)
  BY <1>1, <1>2, <1>3 DEF CalmReadings
<1>4. ASSUME NEW m \in Found, Publish(m) PROVE Searching'
  <2>1. versions' \in [Found -> [last : Nat \ {0}, live : BOOLEAN]]
    BY <1>1, <1>4 DEF Publish
  <2> QED BY <1>1, <1>3, <1>4, <2>1 DEF Publish, SearchTypes
<1>5. ASSUME NEW m \in Found, Retire(m) PROVE Searching'
  <2>1. versions' \in [Found -> [last : Nat \ {0}, live : BOOLEAN]]
    BY <1>1, <1>5 DEF Retire
  <2> QED BY <1>1, <1>3, <1>5, <2>1 DEF Retire, SearchTypes
<1>6. ASSUME NEW m \in Found, Materialize(m) PROVE Searching'
  <2>1. Now(m) \in Nat
    BY <1>1 DEF Now
  <2>2. points' \in [Found -> Nat]
    BY <1>1, <1>6, <2>1 DEF Materialize
  <2> QED BY <1>1, <1>3, <1>6, <2>2 DEF Materialize, SearchTypes
(* The other actions leave versions and points alone.                      *)
<1>7. ASSUME UNCHANGED <<versions, points>>, DOMAIN search' = DOMAIN NoSearch,
             {search'.dense, search'.sparse, search'.rows} \subseteq Seq(Told), CalmReadings'
      PROVE  Searching'
  BY <1>1, <1>7 DEF SearchTypes
<1>8. ASSUME NEW branches, NEW byWeight, NEW strict, StartSearch(branches, byWeight, strict)
      PROVE  Searching'
  <2>1. /\ UNCHANGED <<versions, points>> /\ DOMAIN search' = DOMAIN NoSearch
        /\ search'.dense = <<>> /\ search'.sparse = <<>> /\ search'.rows = <<>>
        /\ search'.answer = <<>>
        /\ search'.calm = \A m \in Found : points[m] = Now(m)
    BY <1>8 DEF StartSearch, NoSearch
  <2>2. Rows' = {} /\ ToSet(search'.answer) = {}
    BY <2>1 DEF Rows, ToSet
  <2>3. ASSUME NEW m \in Found PROVE Now(m)' = Now(m)
    BY <2>1 DEF Now
  <2>4. CalmReadings'
    BY <2>1, <2>2, <2>3 DEF CalmReadings
  <2> QED BY <1>7, <2>1, <2>4
<1>9. ASSUME ReadDense PROVE Searching'
  <2>1. PICK hits \in Hits :
          search' = [search EXCEPT !.todo = @ \ {"dense"}, !.dense = RowsOf(hits)]
    BY <1>9 DEF ReadDense
  <2>2. /\ DOMAIN search' = DOMAIN NoSearch /\ search'.dense = RowsOf(hits)
        /\ search'.sparse = search.sparse /\ search'.rows = search.rows
        /\ search'.calm = search.calm /\ search'.answer = search.answer
    BY <1>1, <2>1 DEF NoSearch
  <2>3. CalmReadings'
    BY <1>9, <2>2, PointsFound DEF ReadDense, CalmReadings, Rows, IsExact, Now
  <2> QED BY <1>1, <1>7, <1>9, <2>2, <2>3, PointsFound DEF ReadDense
<1>10. ASSUME ReadSparse PROVE Searching'
  <2>1. PICK hits \in Hits :
          search' = [search EXCEPT !.todo = @ \ {"sparse"}, !.sparse = RowsOf(hits)]
    BY <1>10 DEF ReadSparse
  <2>2. /\ DOMAIN search' = DOMAIN NoSearch /\ search'.sparse = RowsOf(hits)
        /\ search'.dense = search.dense /\ search'.rows = search.rows
        /\ search'.calm = search.calm /\ search'.answer = search.answer
    BY <1>1, <2>1 DEF NoSearch
  <2>3. CalmReadings'
    BY <1>10, <2>2, PointsFound DEF ReadSparse, CalmReadings, Rows, IsExact, Now
  <2> QED BY <1>1, <1>7, <1>10, <2>2, <2>3, PointsFound DEF ReadSparse
<1>11. ASSUME ReadRows PROVE Searching'
  <2>1. search' = [search EXCEPT !.todo = @ \ {"graph"}, !.rows = GraphRows]
    BY <1>11 DEF ReadRows
  <2>2. /\ DOMAIN search' = DOMAIN NoSearch /\ search'.rows = GraphRows
        /\ search'.dense = search.dense /\ search'.sparse = search.sparse
        /\ search'.calm = search.calm /\ search'.answer = search.answer
    BY <1>1, <2>1 DEF NoSearch
  <2>3. CalmReadings'
    BY <1>11, <2>2, LedgerRows DEF ReadRows, CalmReadings, Rows, IsExact, Now
  <2> QED BY <1>1, <1>7, <1>11, <2>2, <2>3, LedgerRows DEF ReadRows
(* An answer made of what was read.                                        *)
<1>12. ASSUME UNCHANGED <<versions, points>>, DOMAIN search' = DOMAIN NoSearch,
              search'.dense = search.dense, search'.sparse = search.sparse,
              search'.rows = search.rows, search'.calm = search.calm,
              ToSet(search'.answer) \subseteq {Item(m) : m \in Served} \cup ToSet(search.answer)
       PROVE  Searching'
  <2>1. ASSUME search.calm, NEW m \in Served PROVE IsExact(Item(m))
    BY <2>1, ItemsAreExact
  <2>2. CalmReadings'
    BY <1>12, <2>1 DEF CalmReadings, Rows, IsExact, Now
  <2> QED BY <1>1, <1>7, <1>12, <2>2
<1>13. ASSUME Browse PROVE Searching'
  <2> DEFINE heavy == Within(IdsOf(search.rows), Weighty)
             items == [i \in DOMAIN heavy |-> Item(heavy[i])]
             read == {search.rows[i].mem : i \in DOMAIN search.rows}
             all == {Item(m) : m \in Served}
  <2>1. /\ search' = [search EXCEPT !.phase = "answered", !.answer = Cut(items, TopK)]
        /\ UNCHANGED <<versions, points>>
    BY <1>13 DEF Browse
  <2>2. IdsOf(search.rows) \in Seq(read)
    <3>1. DOMAIN search.rows = 1..Len(search.rows) /\ Len(search.rows) \in Nat
      BY <1>1
    <3> QED BY <3>1 DEF IdsOf
  <2>3. read \subseteq Served
    BY DEF Served, Rows, ToSet
  <2>4. heavy \in Seq(read \cap Weighty)
    BY <2>2, WithinKeeps
  <2> HIDE DEF heavy, read
  <2>5. items \in Seq(all)
    BY <2>3, <2>4
  <2> HIDE DEF items, all
  <2>6. Cut(items, TopK) \in Seq(all)
    BY <2>5, CutKeeps, SearchAssumption
  <2>7. ToSet(Cut(items, TopK)) \subseteq all
    BY <2>6 DEF ToSet
  <2>8. /\ DOMAIN search' = DOMAIN NoSearch
        /\ search'.dense = search.dense /\ search'.sparse = search.sparse
        /\ search'.rows = search.rows /\ search'.calm = search.calm
        /\ search'.answer = Cut(items, TopK)
    BY <1>1, <2>1 DEF NoSearch
  <2> QED BY <1>12, <2>1, <2>7, <2>8 DEF all
<1>14. ASSUME GiveUp PROVE Searching'
  <2>1. search' = [search EXCEPT !.phase = "answered"] /\ UNCHANGED <<versions, points>>
    BY <1>14 DEF GiveUp
  <2>2. /\ DOMAIN search' = DOMAIN NoSearch
        /\ search'.dense = search.dense /\ search'.sparse = search.sparse
        /\ search'.rows = search.rows /\ search'.calm = search.calm
        /\ search'.answer = search.answer
    BY <1>1, <2>1 DEF NoSearch
  <2> QED BY <1>12, <2>1, <2>2
<1>15. ASSUME Activate PROVE Searching'
  <2>1. PICK spread : search' = [search EXCEPT !.phase = "fusing", !.spread = spread]
    BY <1>15 DEF Activate
  <2>2. /\ DOMAIN search' = DOMAIN NoSearch
        /\ search'.dense = search.dense /\ search'.sparse = search.sparse
        /\ search'.rows = search.rows /\ search'.calm = search.calm
        /\ search'.answer = search.answer
    BY <1>1, <2>1 DEF NoSearch
  <2> QED BY <1>12, <1>15, <2>2 DEF Activate
<1>16. ASSUME Answer PROVE Searching'
  <2> DEFINE candidates == Candidates(Fused(Lists))
  <2>1. PICK room, order :
          /\ order \in [1..room -> candidates]
          /\ search' = [search EXCEPT !.phase = "answered",
                       !.answer = [i \in DOMAIN order |-> Item(order[i])]]
    <3>1. \E room : \E order \in {s \in [1..room -> candidates] : IsInjective(s)} :
            search' = [search EXCEPT !.phase = "answered",
                         !.answer = [i \in DOMAIN order |-> Item(order[i])]]
      BY <1>16 DEF Answer
    <3> HIDE DEF candidates
    <3> QED BY <3>1
  <2>2. candidates \subseteq Served
    BY DEF Candidates, Diversified
  <2> HIDE DEF candidates
  <2>3. /\ DOMAIN search' = DOMAIN NoSearch
        /\ search'.dense = search.dense /\ search'.sparse = search.sparse
        /\ search'.rows = search.rows /\ search'.calm = search.calm
        /\ search'.answer = [i \in DOMAIN order |-> Item(order[i])]
    BY <1>1, <2>1 DEF NoSearch
  <2>4. ToSet(search'.answer) \subseteq {Item(m) : m \in Served}
    BY <2>1, <2>2, <2>3 DEF ToSet
  <2> QED BY <1>12, <1>16, <2>3, <2>4 DEF Answer
<1>17. CASE UNCHANGED searchVars
  <2>1. versions' = versions /\ points' = points /\ search' = search
    BY <1>17 DEF searchVars
  <2> QED BY <2>1 DEF SearchTypes, CalmReadings, Rows, IsExact, Now
<1> QED
  BY <1>4, <1>5, <1>6, <1>8, <1>9, <1>10, <1>11, <1>13, <1>14, <1>15, <1>16, <1>17
  DEF SearchNext

(* A search during which Qdrant had caught up and nothing moved answers    *)
(* with the heads of the ledger, whatever is ranked or left out (search).  *)
THEOREM CalmAnswersAreHeads == SearchSpec => []CalmSearchIsExact
<1>1. SearchSpec => []Searching
  BY SearchingInitially, SearchingStep, PTL DEF SearchSpec
<1>2. Searching => CalmSearchIsExact
  BY DEF Searching, CalmReadings, CalmSearchIsExact, IsExact
<1> QED BY <1>1, <1>2, PTL

(* A round of the activation, relation by relation.                        *)
LEMMA RoundByRelation ==
  ASSUME NEW scores, NEW frontier
  PROVE  \E after :
           /\ Round(scores, frontier) = after[Len(Relations)]
           /\ after[0] = [scores |-> scores, frontier |-> frontier, reached |-> {}]
           /\ \A n \in 1..Len(Relations) : after[n] = Spread(after[n - 1], Relations[n])
<1> DEFINE base == [scores |-> scores, frontier |-> frontier, reached |-> {}]
           At(f, n) == IF n = 0 THEN base ELSE Spread(f[n - 1], Relations[n])
           Defined(k) == \E f : f = [n \in 0..k |-> At(f, n)]
           after == CHOOSE f : f = [n \in 0..Len(Relations) |-> At(f, n)]
<1>1. Len(Relations) \in Nat
  BY SearchAssumption
<1>2. Round(scores, frontier) = after[Len(Relations)]
  BY DEF Round
<1> HIDE DEF base
<1>3. Defined(Len(Relations))
  <2> DEFINE T == {k \in Nat : Defined(k)}
  <2>1. 0 \in T
    <3> DEFINE f == [n \in 0..0 |-> base]
    <3>1. f = [n \in 0..0 |-> At(f, n)]
      OBVIOUS
    <3> QED BY <3>1
  <2>2. ASSUME NEW k \in 1..Len(Relations), k - 1 \in T PROVE k \in T
    <3>1. PICK f : f = [n \in 0..(k - 1) |-> At(f, n)]
      BY <2>2
    <3> DEFINE g == [n \in 0..k |-> IF n = k THEN At(f, k) ELSE f[n]]
    <3>2. ASSUME NEW n \in 0..k PROVE g[n] = At(g, n)
      <4>1. CASE n = k
        BY <2>2, <4>1
      <4>2. CASE n # k
        <5>1. k \in Nat /\ n \in 0..(k - 1) /\ (n # 0 => n - 1 \in 0..(k - 1) /\ n - 1 # k)
          BY <2>2, <4>2
        <5>2. f[n] = At(f, n) /\ g[n] = f[n]
          BY <3>1, <4>2, <5>1
        <5>3. n # 0 => g[n - 1] = f[n - 1]
          BY <3>1, <5>1
        <5> QED BY <5>2, <5>3
      <4> QED BY <4>1, <4>2
    <3>3. g = [n \in 0..k |-> At(g, n)]
      BY <3>2
    <3> HIDE DEF g
    <3>4. Defined(k)
      BY <3>3
    <3> HIDE DEF Defined
    <3> QED BY <2>2, <3>4
  <2> HIDE DEF T
  <2>3. 0..Len(Relations) \subseteq T
    BY <1>1, <2>1, <2>2, CountingUp
  <2>4. Len(Relations) \in T
    BY <1>1, <2>3
  <2> QED BY <2>4 DEF T
<1>4. after = [n \in 0..Len(Relations) |-> At(after, n)]
  BY <1>3
<1> HIDE DEF after
<1>5. after[0] = base
  BY <1>1, <1>4
<1>6. ASSUME NEW n \in 1..Len(Relations)
      PROVE  after[n] = Spread(after[n - 1], Relations[n])
  <2>1. n \in 0..Len(Relations) /\ n # 0
    BY <1>1
  <2> QED BY <1>4, <2>1
<1> QED BY <1>2, <1>5, <1>6 DEF base

Touches(rel, set) == {rel[1], rel[2]} \cap set # {}

(* What the first n relations reach from a frontier.                       *)
ReachedBy(frontier, n) ==
  {m \in Found : \E i \in 1..n : /\ Touches(Relations[i], frontier)
                                 /\ m = Neighbor(frontier, Relations[i])}
Reached(frontier) == ReachedBy(frontier, Len(Relations))

LEMMA ReachedByOneMore ==
  ASSUME NEW frontier, NEW n \in 1..Len(Relations)
  PROVE  ReachedBy(frontier, n) =
           ReachedBy(frontier, n - 1) \cup
             {m \in Found : /\ Touches(Relations[n], frontier)
                            /\ m = Neighbor(frontier, Relations[n])}
<1>1. Len(Relations) \in Nat
  BY SearchAssumption
<1>2. 1..n = (1..(n - 1)) \cup {n}
  BY <1>1
<1> QED BY <1>2 DEF ReachedBy

(* Where a relation carries to, and from, in a round.                      *)
Source(frontier, rel) == IF rel[1] \in frontier THEN rel[1] ELSE rel[2]

(* A round raises what it reaches to the gain of a frontier, if all of the *)
(* frontier gives that gain or finds no less at the other end.             *)
LEMMA RoundReaches ==
  ASSUME NEW scores \in [Found -> Nat], NEW frontier \in SUBSET Found, NEW gain \in Nat,
         \A i \in 1..Len(Relations) :
           LET near == Neighbor(frontier, Relations[i])
               from == Source(frontier, Relations[i])
           IN Touches(Relations[i], frontier) /\ near \in Found =>
                /\ scores[from] >= gain
                /\ \/ scores[from] \div 2 = gain
                   \/ scores[near] >= gain /\ scores[near] >= scores[from] \div 2
  PROVE  /\ Round(scores, frontier).reached = Reached(frontier)
         /\ Round(scores, frontier).scores =
              [m \in Found |->
                 IF m \in Reached(frontier) /\ scores[m] < gain THEN gain ELSE scores[m]]
<1>1. Len(Relations) \in Nat
  BY SearchAssumption
<1>2. PICK after :
        /\ Round(scores, frontier) = after[Len(Relations)]
        /\ after[0] = [scores |-> scores, frontier |-> frontier, reached |-> {}]
        /\ \A n \in 1..Len(Relations) : after[n] = Spread(after[n - 1], Relations[n])
  BY RoundByRelation
<1> DEFINE Raised(set) ==
             [m \in Found |-> IF m \in set /\ scores[m] < gain THEN gain ELSE scores[m]]
           Stage(n) == [scores |-> Raised(ReachedBy(frontier, n)), frontier |-> frontier,
                        reached |-> ReachedBy(frontier, n)]
           T == {n \in Nat : after[n] = Stage(n)}
<1>3. 0 \in T
  <2>1. ReachedBy(frontier, 0) = {}
    BY DEF ReachedBy
  <2>2. Raised({}) = scores
    OBVIOUS
  <2> QED BY <1>2, <2>1, <2>2
<1>4. ASSUME NEW k \in 1..Len(Relations), k - 1 \in T PROVE k \in T
  <2> DEFINE rel == Relations[k]
             near == Neighbor(frontier, rel)
             from == Source(frontier, rel)
             before == ReachedBy(frontier, k - 1)
             hit == Touches(rel, frontier) /\ near \in Found
  <2>1. after[k] = Spread(Stage(k - 1), rel)
    BY <1>2, <1>4
  <2>2. ReachedBy(frontier, k) = before \cup (IF hit THEN {near} ELSE {})
    BY ReachedByOneMore
  <2>3. k \in Nat
    BY <1>1
  <2>4. CASE ~hit
    <3>1. Spread(Stage(k - 1), rel) = Stage(k - 1)
      BY <2>4 DEF Spread, Touches
    <3>2. Stage(k) = Stage(k - 1)
      BY <2>2, <2>4
    <3> QED BY <2>1, <2>3, <3>1, <3>2
  <2>5. CASE hit
    <3>1. from \in Found
      BY <2>5 DEF Touches, Source
    <3>2. /\ scores[from] >= gain
          /\ \/ scores[from] \div 2 = gain
             \/ scores[near] >= gain /\ scores[near] >= scores[from] \div 2
      BY <2>5
    <3> DEFINE half == Raised(before)[from] \div 2
    <3>3. Raised(before)[from] = scores[from] /\ scores[from] \in Nat
      BY <3>1, <3>2
    <3>4. Spread(Stage(k - 1), rel) =
            [Stage(k - 1) EXCEPT !.scores[near] = IF half > @ THEN half ELSE @,
                                 !.reached = @ \cup {near}]
      BY <2>5 DEF Spread, Touches, Source
    <3>5. half \in Nat /\ half = scores[from] \div 2
      BY <3>3
    <3> HIDE DEF half
    <3>6. [Raised(before) EXCEPT ![near] = IF half > @ THEN half ELSE @] = Raised(before \cup {near})
      <4>1. ASSUME NEW m \in Found
            PROVE  [Raised(before) EXCEPT ![near] = IF half > @ THEN half ELSE @][m]
                     = Raised(before \cup {near})[m]
        BY <2>5, <3>2, <3>5
      <4> QED BY <4>1
    <3> HIDE DEF Raised, near, before
    <3>7. Spread(Stage(k - 1), rel) =
            [scores |-> [Raised(before) EXCEPT ![near] = IF half > @ THEN half ELSE @],
             frontier |-> frontier, reached |-> before \cup {near}]
      BY <3>4 DEF before
    <3> QED BY <2>1, <2>2, <2>3, <2>5, <3>6, <3>7
  <2> QED BY <2>4, <2>5
<1> HIDE DEF T
<1>5. 0..Len(Relations) \subseteq T
  BY <1>1, <1>3, <1>4, CountingUp
<1>6. after[Len(Relations)] = Stage(Len(Relations))
  BY <1>1, <1>5 DEF T
<1> QED BY <1>2, <1>6 DEF Reached

(* Next to a seed, a memory that is none is reached in the first round.    *)
LEMMA BesideIsReached ==
  ASSUME NEW seeds \in SUBSET Found
  PROVE  /\ Reached(seeds) \subseteq Beside(seeds)
         /\ \A m \in Beside(seeds) \ seeds : m \in Reached(seeds)
<1> SUFFICES ASSUME NEW m \in Found
             PROVE  /\ m \in Reached(seeds) => m \in Beside(seeds)
                    /\ m \in Beside(seeds) \ seeds => m \in Reached(seeds)
  BY DEF Reached, ReachedBy, Beside
<1>1. \A rel : rel \in ToSet(Relations) <=> \E i \in 1..Len(Relations) : rel = Relations[i]
  BY SearchAssumption DEF ToSet
<1>2. ASSUME m \in Reached(seeds) PROVE m \in Beside(seeds)
  BY <1>1, <1>2 DEF Reached, ReachedBy, Beside, Neighbor, Touches
<1>3. ASSUME m \in Beside(seeds) \ seeds PROVE m \in Reached(seeds)
  <2>1. PICK i \in 1..Len(Relations) :
          m \in {Relations[i][1], Relations[i][2]} /\ Touches(Relations[i], seeds)
    BY <1>1, <1>3 DEF Beside, Touches
  <2>2. m = Neighbor(seeds, Relations[i])
    BY <1>3, <2>1 DEF Neighbor, Touches
  <2> QED BY <2>1, <2>2 DEF Reached, ReachedBy
<1> QED BY <1>2, <1>3

LEMMA TwoRounds ==
  ASSUME NEW seeds \in SUBSET Found
  PROVE  Activation(seeds) =
           [m \in Found |-> IF m \in seeds THEN 4
                            ELSE IF m \in Beside(seeds) THEN 2
                            ELSE IF m \in Beside(Beside(seeds)) THEN 1 ELSE 0]
<1> DEFINE start == [m \in Found |-> IF m \in seeds THEN 4 ELSE 0]
           near == Reached(seeds)
           middle == [m \in Found |-> IF m \in seeds THEN 4 ELSE IF m \in near THEN 2 ELSE 0]
           far == Reached(near)
<1>1. near \subseteq Found /\ far \subseteq Found
  BY DEF Reached, ReachedBy
<1>2. Round(start, seeds).reached = near /\ Round(start, seeds).scores = middle
  <2>1. start \in [Found -> Nat] /\ 2 \in Nat
    OBVIOUS
  <2>2. ASSUME NEW i \in 1..Len(Relations), Touches(Relations[i], seeds)
        PROVE  Source(seeds, Relations[i]) \in seeds
    BY <2>2 DEF Touches, Source
  <2>3. \A m \in seeds : start[m] = 4
    OBVIOUS
  <2>4. /\ Round(start, seeds).reached = near
        /\ Round(start, seeds).scores =
             [m \in Found |-> IF m \in near /\ start[m] < 2 THEN 2 ELSE start[m]]
    <3> HIDE DEF start
    <3>1. ASSUME NEW i \in 1..Len(Relations), Touches(Relations[i], seeds)
          PROVE  start[Source(seeds, Relations[i])] >= 2
                 /\ start[Source(seeds, Relations[i])] \div 2 = 2
      BY <2>2, <2>3, <3>1
    <3> QED BY <2>1, <3>1, RoundReaches
  <2>5. ASSUME NEW m \in Found
        PROVE  (IF m \in near /\ start[m] < 2 THEN 2 ELSE start[m])
                 = IF m \in seeds THEN 4 ELSE IF m \in near THEN 2 ELSE 0
    <3> HIDE DEF near
    <3> QED OBVIOUS
  <2> QED BY <2>4, <2>5
<1>3. Round(middle, near).scores =
        [m \in Found |-> IF m \in far /\ middle[m] < 1 THEN 1 ELSE middle[m]]
  <2>1. middle \in [Found -> Nat] /\ 1 \in Nat
    OBVIOUS
  <2>2. ASSUME NEW i \in 1..Len(Relations), Touches(Relations[i], near),
               Neighbor(near, Relations[i]) \in Found
        PROVE  LET from == Source(near, Relations[i])
                   to == Neighbor(near, Relations[i])
               IN /\ middle[from] >= 1
                  /\ \/ middle[from] \div 2 = 1
                     \/ middle[to] >= 1 /\ middle[to] >= middle[from] \div 2
    <3> DEFINE from == Source(near, Relations[i])
               to == Neighbor(near, Relations[i])
    <3>1. from \in near
      BY <2>2 DEF Touches, Source
    <3>2. middle[from] = IF from \in seeds THEN 4 ELSE 2
      BY <1>1, <3>1
    <3>3. ASSUME from \notin seeds
          PROVE  middle[from] >= 1 /\ middle[from] \div 2 = 1
      <4>1. middle[from] = 2
        BY <3>2, <3>3
      <4> HIDE DEF from, middle
      <4> QED BY <4>1
    <3>4. ASSUME from \in seeds
          PROVE  /\ middle[from] >= 1
                 /\ middle[to] >= 1 /\ middle[to] >= middle[from] \div 2
      <4>1. Touches(Relations[i], seeds)
        BY <3>4 DEF Source, Touches
      <4>2. to \notin seeds => to = Neighbor(seeds, Relations[i])
        BY <3>4, <4>1 DEF Source, Neighbor, Touches
      <4>3. to \in seeds \/ to \in near
        BY <2>2, <4>1, <4>2 DEF Reached, ReachedBy
      <4>4. middle[to] >= 2
        <5> HIDE DEF near, to
        <5>1. to \in Found
          BY <2>2 DEF near, to
        <5> QED BY <4>3, <5>1
      <4>5. middle[from] = 4 /\ middle[to] \in Nat
        <5> HIDE DEF near
        <5> QED BY <3>2, <3>4, <2>2
      <4> HIDE DEF from, to, middle
      <4> QED BY <4>4, <4>5
    <3>5. /\ middle[from] >= 1
          /\ \/ middle[from] \div 2 = 1
             \/ middle[to] >= 1 /\ middle[to] >= middle[from] \div 2
      <4> HIDE DEF from, to, middle
      <4> QED BY <3>3, <3>4
    <3> HIDE DEF middle
    <3> QED BY <3>5
  <2> HIDE DEF middle
  <2> QED BY <1>1, <2>1, <2>2, RoundReaches
<1>4. ASSUME NEW m \in Found
      PROVE  (IF m \in far /\ middle[m] < 1 THEN 1 ELSE middle[m])
               = IF m \in seeds THEN 4
                 ELSE IF m \in Beside(seeds) THEN 2
                 ELSE IF m \in Beside(Beside(seeds)) THEN 1 ELSE 0
  <2>1. m \notin seeds => (m \in near <=> m \in Beside(seeds))
    BY BesideIsReached
  <2>2. ASSUME m \notin seeds, m \notin Beside(seeds)
        PROVE  m \in far <=> m \in Beside(Beside(seeds))
    <3>1. m \notin near
      BY <2>1, <2>2
    <3>2. far \subseteq Beside(near) /\ near \subseteq Beside(seeds)
      BY <1>1, BesideIsReached
    <3>3. Beside(near) \subseteq Beside(Beside(seeds))
      BY <3>2 DEF Beside
    <3>4. ASSUME m \in Beside(Beside(seeds)) PROVE m \in Beside(near)
      <4>1. PICK rel \in ToSet(Relations) :
              m \in {rel[1], rel[2]} /\ {rel[1], rel[2]} \cap Beside(seeds) # {}
        BY <3>4 DEF Beside
      <4>2. PICK x \in Beside(seeds) : x \in {rel[1], rel[2]}
        BY <4>1
      <4>3. x \notin seeds
        BY <2>2, <4>1, <4>2 DEF Beside
      <4>4. x \in near
        BY <4>2, <4>3, BesideIsReached
      <4> QED BY <4>1, <4>2, <4>4 DEF Beside
    <3>5. m \in Beside(near) => m \in far
      BY <1>1, <3>1, BesideIsReached
    <3> QED BY <3>2, <3>3, <3>4, <3>5
  <2>3. middle[m] = IF m \in seeds THEN 4 ELSE IF m \in near THEN 2 ELSE 0
    OBVIOUS
  <2> HIDE DEF middle, near, far
  <2> QED BY <2>1, <2>2, <2>3
<1>5. Activation(seeds) = Round(middle, near).scores
  BY <1>2 DEF Activation
<1> HIDE DEF middle, far, near
<1> QED BY <1>3, <1>4, <1>5

(* The scores that spread over the relations of the ledger tell each       *)
(* memory's distance from the nearest seed, whatever the order in which    *)
(* the relations are listed (_activate_ledger).                            *)
THEOREM ActivationTellsDistance == SearchSpec => []ActivationIsDistance
<1>1. SearchSpec => []Searching
  BY SearchingInitially, SearchingStep, PTL DEF SearchSpec
<1>2. Searching => ActivationIsDistance
  <2> SUFFICES ASSUME Searching PROVE ActivationIsDistance
    OBVIOUS
  <2>1. ASSUME NEW rows \in {search.dense, search.sparse, search.rows}
        PROVE  IdsOf(rows) \in Seq(Found)
    <3>1. rows \in Seq(Told)
      BY <2>1 DEF Searching, SearchTypes
    <3>2. DOMAIN rows = 1..Len(rows) /\ Len(rows) \in Nat
      BY <3>1
    <3>3. \A i \in 1..Len(rows) : rows[i] \in Told
      BY <3>1
    <3>4. \A i \in 1..Len(rows) : rows[i].mem \in Found
      BY <3>3 DEF Told
    <3> QED BY <3>2, <3>4 DEF IdsOf
  <2>2. Seeds \in SUBSET Found
    <3> DEFINE dense == IdsOf(search.dense)
               sparse == IdsOf(search.sparse)
    <3>1. dense \in Seq(Found) /\ sparse \in Seq(Found)
      BY <2>1
    <3> HIDE DEF dense, sparse
    <3>2. dense \o sparse \in Seq(Found)
      BY <3>1
    <3>3. ToSet(dense \o sparse) \subseteq Found
      BY <3>2 DEF ToSet
    <3> QED BY <3>3 DEF Seeds, dense, sparse
  <2> QED BY <2>2, TwoRounds DEF ActivationIsDistance
<1> QED BY <1>1, <1>2, PTL

=============================================================================

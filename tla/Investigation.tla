--------------------------- MODULE Investigation ---------------------------
(***************************************************************************)
(* The investigation of errors: ErrorInvestigationOrchestrator.handle_error *)
(* with ErrorService, the agent worker and GitHub.  Each event is handled  *)
(* by a coroutine of its own, with its own error_id; the handlers share    *)
(* the graph of errors and the list of the times of the last fixes, and    *)
(* any await of theirs lets the others run.  A handler may raise at any    *)
(* await and leaves behind what it did before.                             *)
(*                                                                         *)
(* The graph keeps one :Error node for a fingerprint (hash of the trace,   *)
(* service and environment), under the error_id of the event that created  *)
(* it.  No constraint makes the fingerprint unique, so the MERGEs of two   *)
(* handlers may each find nothing and create a node.                       *)
(***************************************************************************)
EXTENDS Naturals, FiniteSets

CONSTANTS
  Events,        \* events reported, each one is also the id of its error
  Fingerprints,  \* fingerprints of errors
  Files,         \* files named by stack traces
  Pulls,         \* effective pull request memories: [files, merged]
  MaxFixes,      \* max_auto_fixes_per_hour
  Window,        \* the hour
  MaxClock       \* bound on the clock

ASSUME InvestigationAssumption ==
  /\ Fingerprints # {} /\ Pulls \subseteq [files : SUBSET Files, merged : Nat]
  /\ MaxFixes \in Nat /\ Window \in Nat /\ MaxClock \in Nat

VARIABLES
  handlers,   \* what each handler is doing
  errors,     \* the :Error node of each event, if it created one
  fixes,      \* _fix_timestamps, each with the handler that appended it
  started,    \* every fix there was, in the same form
  pullsMade,  \* pull requests opened: the event and whether gh told its url
  hour        \* the clock

incidentVars == <<handlers, errors, fixes, started, pullsMade, hour>>

\* The fix is applied when it is said to be done, is sure enough and touches
\* no blocked path; every other answer leaves the error to a person.
Verdicts == {"fix", "leave"}

Unreported == [phase |-> "waiting", fp |-> CHOOSE f \in Fingerprints : TRUE,
               files |-> {}, at |-> 0, verdict |-> "leave", before |-> {}]
NoError == [kept |-> FALSE]
Kept(e) == errors[e].kept
Nodes(fp) == {e \in Events : Kept(e) /\ errors[e].fp = fp}
-----------------------------------------------------------------------------
(* ErrorService.                                                           *)

(* Mutant: an error that comes back stays resolved.                        *)
OnMatch_Resolved(error) == [error EXCEPT !.count = @ + 1]

(* ON MATCH SET.                                                           *)
OnMatch(error) ==
  [error EXCEPT !.count = @ + 1,
                !.status = IF @ = "resolved" THEN "open" ELSE @]

NewError(e) ==
  [kept |-> TRUE, fp |-> handlers[e].fp, files |-> {}, at |-> handlers[e].at,
   status |-> "open", count |-> 1, inquiry |-> "none", closedAt |-> 0]

(* Mutant: the recurrence of a known error is investigated again.          *)
Suspects_AnyRow(e) ==
  {pull \in Pulls :
     /\ handlers[e].files = {} \/ handlers[e].files \cap pull.files # {}
     /\ pull.merged < handlers[e].at}

(* find_suspect_prs: the pull requests merged before the error that changed *)
(* one of its files.  An id without a node has no suspects; a node without *)
(* files suspects every pull request.                                      *)
Suspects(e) ==
  IF ~Kept(e) THEN {}
  ELSE {pull \in Pulls :
          /\ errors[e].files = {} \/ errors[e].files \cap pull.files # {}
          /\ pull.merged < errors[e].at}
-----------------------------------------------------------------------------
(* The breaker.                                                            *)
Young(fs) == {fix \in fs : hour - fix.at < Window}

(* Mutant: the window is told in another unit, and is too short.           *)
Recent_Shorter == {fix \in fixes : hour - fix.at < Window \div 2}

Recent == Young(fixes)
-----------------------------------------------------------------------------
(* handle_error, one step for the code between two awaits.                 *)
Goto(e, phase) == handlers' = [handlers EXCEPT ![e].phase = phase]

(* A handler that returns or raises forgets what it held.                  *)
Finish(e) ==
  handlers' = [handlers EXCEPT
    ![e] = [Unreported EXCEPT !.phase = "done", !.before = handlers[e].before]]

Receive(e) ==
  /\ handlers[e].phase = "waiting"
  /\ \E fp \in Fingerprints, files \in SUBSET Files :
       handlers' = [handlers EXCEPT ![e] =
         [@ EXCEPT !.phase = "ingest", !.fp = fp, !.files = files, !.at = hour]]
  /\ UNCHANGED <<errors, fixes, started, pullsMade, hour>>

AfterIngest(e) == IF handlers[e].files = {} THEN "suspects" ELSE "link"

(* The MERGE finds the nodes of the fingerprint, or none.                  *)
IngestError(e) ==
  /\ handlers[e].phase = "ingest"
  /\ LET found == Nodes(handlers[e].fp)
     IN /\ Goto(e, IF found = {} THEN "create" ELSE AfterIngest(e))
        /\ errors' = [x \in Events |->
                        IF x \in found THEN OnMatch(errors[x]) ELSE errors[x]]
  /\ UNCHANGED <<fixes, started, pullsMade, hour>>

CreateError(e) ==
  /\ handlers[e].phase = "create"
  /\ errors' = [errors EXCEPT ![e] = NewError(e)]
  /\ Goto(e, AfterIngest(e))
  /\ UNCHANGED <<fixes, started, pullsMade, hour>>

(* link_files matches the node by the event's own id.                      *)
LinkFiles(e) ==
  /\ handlers[e].phase = "link"
  /\ errors' = IF Kept(e)
               THEN [errors EXCEPT ![e].files = handlers[e].files] ELSE errors
  /\ Goto(e, "suspects")
  /\ UNCHANGED <<fixes, started, pullsMade, hour>>

(* The suspects and, in the same step, the breaker, which forgets the old  *)
(* fixes.  What the agent then does takes as long as it takes.             *)
FindSuspects(e) ==
  /\ handlers[e].phase = "suspects"
  /\ IF Suspects(e) = {}
     THEN Finish(e) /\ UNCHANGED fixes
     ELSE /\ fixes' = Recent
          /\ IF Cardinality(Recent) < MaxFixes
             THEN handlers' = [handlers EXCEPT ![e].phase = "work",
                                               ![e].before = Young(started)]
             ELSE Finish(e)
  /\ UNCHANGED <<errors, started, pullsMade, hour>>

(* The worker answers, or gives up: a timeout, a refusal of the provider   *)
(* and an answer without JSON are all "unclear", and leave the error.      *)
AgentAnswers(e) ==
  /\ handlers[e].phase = "work"
  /\ \E verdict \in Verdicts :
       handlers' = [handlers EXCEPT ![e].phase = "record", ![e].verdict = verdict]
  /\ UNCHANGED <<errors, fixes, started, pullsMade, hour>>

(* create_investigation, then the fix: its time is recorded before the     *)
(* pull request is asked for.                                              *)
RecordInvestigation(e) ==
  /\ handlers[e].phase = "record"
  /\ errors' = IF Kept(e)
               THEN [errors EXCEPT ![e].status = "investigating",
                                   ![e].inquiry = "in_progress"]
               ELSE errors
  /\ IF handlers[e].verdict = "fix"
     THEN /\ fixes' = fixes \cup {[by |-> e, at |-> hour]}
          /\ started' = started \cup {[by |-> e, at |-> hour]}
          /\ Goto(e, "pull")
     ELSE Finish(e) /\ UNCHANGED <<fixes, started>>
  /\ UNCHANGED <<pullsMade, hour>>

(* gh pr create tells the url, or fails.                                   *)
OpenPull(e) ==
  /\ handlers[e].phase = "pull"
  /\ \/ pullsMade' = pullsMade \cup {e} /\ Goto(e, "complete")
     \/ UNCHANGED pullsMade /\ Finish(e)
  /\ UNCHANGED <<errors, fixes, started, hour>>

CompleteInvestigation(e) ==
  /\ handlers[e].phase = "complete"
  /\ errors' = IF Kept(e)
               THEN [errors EXCEPT ![e].status = "resolved",
                                   ![e].inquiry = "completed",
                                   ![e].closedAt = errors[e].count]
               ELSE errors
  /\ Finish(e)
  /\ UNCHANGED <<fixes, started, pullsMade, hour>>

(* A driver, the worker or gh raises; the webhook answers 500.             *)
HandlerFails(e) ==
  /\ handlers[e].phase \notin {"waiting", "done"}
  /\ Finish(e)
  /\ UNCHANGED <<errors, fixes, started, pullsMade, hour>>

HourTick ==
  /\ hour < MaxClock
  /\ hour' = hour + 1
  /\ UNCHANGED <<handlers, errors, fixes, started, pullsMade>>

InvestigationInit ==
  /\ handlers = [e \in Events |-> Unreported]
  /\ errors = [e \in Events |-> NoError]
  /\ fixes = {}
  /\ started = {}
  /\ pullsMade = {}
  /\ hour = 1

InvestigationNext ==
  \/ \E e \in Events :
       \/ Receive(e) \/ IngestError(e) \/ CreateError(e) \/ LinkFiles(e)
       \/ FindSuspects(e) \/ AgentAnswers(e) \/ RecordInvestigation(e)
       \/ OpenPull(e) \/ CompleteInvestigation(e) \/ HandlerFails(e)
  \/ HourTick

InvestigationSpec == InvestigationInit /\ [][InvestigationNext]_incidentVars
-----------------------------------------------------------------------------
(* However the handlers interleave and whatever the breaker has forgotten,  *)
(* a fix starts only when fewer than MaxFixes fixes had started in the     *)
(* window before its check (_check_circuit_breaker, _auto_fix).            *)
FixesWereAdmitted ==
  \A fix \in started : Cardinality(handlers[fix.by].before) < MaxFixes

(* One :Error node gives at most one pull request, by the handler of the   *)
(* event that created it: what recurs, also while it is investigated, is   *)
(* only counted (ingest_error, find_suspect_prs).                          *)
PullsAreTraced ==
  \A e \in pullsMade : Kept(e) /\ errors[e].inquiry # "none"

(* A resolved error has a pull request and has not been seen again since:  *)
(* an occurrence opens it, whoever reports it (ingest_error's ON MATCH and *)
(* complete_investigation).                                                *)
ResolvedUntilSeenAgain ==
  \A e \in Events :
    Kept(e) /\ errors[e].status = "resolved" =>
      e \in pullsMade /\ errors[e].count = errors[e].closedAt
=============================================================================

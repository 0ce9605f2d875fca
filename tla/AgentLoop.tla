----------------------------- MODULE AgentLoop -----------------------------
(***************************************************************************)
(* The cycle of an agent: pre_task_context serves memories and procedures  *)
(* and remembers them, post_task_summary learns from the task's outcome:   *)
(* it credits the procedures served and proposes new weights for the       *)
(* memories served (CognitiveReflectionService), then keeps an episode.    *)
(*                                                                         *)
(* One AgentLoopService serves every client, and it remembers one task at  *)
(* a time.  Each task below is one client's cycle; its coroutines await    *)
(* between the steps, and a failure of the ledger ends a summary where it  *)
(* is, for the client to ask for it again.                                 *)
(***************************************************************************)
EXTENDS Naturals, FiniteSets, Sequences, SequencesExt

CONSTANTS
  Tasks,       \* cycles
  Procedures,  \* procedures, each one with a head or not
  Memories,    \* memories
  Outcomes,    \* "completed", "partial", "failed"
  Describe,    \* the description of each task, which names its episode
  MaxRevisions,\* bound on the revisions of a memory
  MaxRaises    \* bound on the failures of the ledger

ASSUME AgentLoopAssumption ==
  /\ Outcomes \subseteq {"completed", "partial", "failed"}
  /\ IsFiniteSet(Procedures) /\ IsFiniteSet(Memories)
  /\ MaxRevisions \in Nat /\ MaxRaises \in Nat

NoTask == "no task"
ASSUME NoTaskAssumption == NoTask \notin Tasks

VARIABLES
  cycles,       \* what each task is doing
  served,       \* the TaskState each task made: what it was served
  lastState,    \* _last_task_state: whose state it is, or NoTask
  credits,      \* observations of use: [proc, state, success] and how many
  weighed,      \* proposals of weights, by their keys: [mem, rev, outcome]
  revisions,    \* the number of the head of each memory, 0 for none
  episodes,     \* the outcome told by the episode of each description
  disturbed,    \* tasks that overlapped another or met a failure
  raises        \* failures of the ledger

agentVars == <<cycles, served, lastState, credits, weighed, revisions,
               episodes, disturbed, raises>>

Untold == "untold"
NewCycle == [phase |-> "new", outcome |-> "completed", state |-> NoTask,
             todo |-> <<>>, rest |-> <<>>]
Active(t) == cycles[t].phase \notin {"new", "done"}
AllActive == {t \in Tasks : Active(t)}

Orders(S) == {SetToSeq(part) : part \in SUBSET S}
-----------------------------------------------------------------------------
(* pre_task_context.  The state is published when everything is loaded, in *)
(* place of the state of the task before.                                  *)
Perceive(t) ==
  /\ cycles[t].phase = "new"
  /\ \E procs \in Orders(Procedures),
        mems \in Orders({m \in Memories : revisions[m] > 0}) :
       served' = [served EXCEPT ![t] = [procs |-> procs, mems |-> mems]]
  /\ lastState' = t
  /\ cycles' = [cycles EXCEPT ![t].phase = "acting"]
  /\ disturbed' = IF AllActive = {} THEN disturbed
                  ELSE disturbed \cup AllActive \cup {t}
  /\ UNCHANGED <<credits, weighed, revisions, episodes, raises>>

(* post_task_summary, with or without a context before it: the candidates  *)
(* are extracted and proposed first, which other cycles may overlap.       *)
Summarize(t) ==
  /\ cycles[t].phase \in {"new", "acting"}
  /\ \E outcome \in Outcomes :
       cycles' = [cycles EXCEPT ![t].phase = "extract", ![t].outcome = outcome]
  /\ disturbed' = IF AllActive \subseteq {t} THEN disturbed
                  ELSE disturbed \cup AllActive \cup {t}
  /\ UNCHANGED <<served, lastState, credits, weighed, revisions, episodes, raises>>

(* The reflection takes the state that is there after the extraction.      *)
Reflect(t) ==
  /\ cycles[t].phase = "extract"
  /\ cycles' = [cycles EXCEPT ![t] = [@ EXCEPT
       !.phase = IF lastState = NoTask THEN "episode" ELSE "credit",
       !.state = lastState,
       !.todo = IF lastState = NoTask THEN <<>> ELSE served[lastState].procs,
       !.rest = IF lastState = NoTask THEN <<>> ELSE served[lastState].mems]]
  /\ UNCHANGED <<served, lastState, credits, weighed, revisions, episodes,
                 disturbed, raises>>

(* record_usage: a key of its own for each observation.                    *)
Credit(t) ==
  /\ cycles[t].phase = "credit"
  /\ IF cycles[t].todo = <<>>
     THEN /\ cycles' = [cycles EXCEPT ![t].phase = "weigh"]
          /\ UNCHANGED credits
     ELSE /\ cycles' = [cycles EXCEPT ![t].todo = Tail(@)]
          /\ credits' = [credits EXCEPT ![<<Head(cycles[t].todo), cycles[t].state>>] =
               Append(@, cycles[t].outcome = "completed")]
  /\ UNCHANGED <<served, lastState, weighed, revisions, episodes, disturbed, raises>>

(* A memory without a head is passed over.                                 *)
AfterHeadless(rest) == Tail(rest)

(* _calibrate_memories: one proposal for a memory, its head and the        *)
(* outcome, however often it is asked for.                                 *)
Weigh(t) ==
  /\ cycles[t].phase = "weigh"
  /\ LET rest == cycles[t].rest
     IN \/ /\ rest = <<>>
           /\ cycles' = [cycles EXCEPT ![t].phase = "episode"]
           /\ UNCHANGED weighed
        \/ /\ rest # <<>> /\ revisions[Head(rest)] = 0
           /\ cycles' = [cycles EXCEPT ![t].rest = AfterHeadless(rest)]
           /\ UNCHANGED weighed
        \/ /\ rest # <<>> /\ revisions[Head(rest)] > 0
           /\ cycles' = [cycles EXCEPT ![t].rest = Tail(rest)]
           /\ weighed' = weighed \cup {[mem |-> Head(rest),
                rev |-> revisions[Head(rest)], outcome |-> cycles[t].outcome]}
  /\ UNCHANGED <<served, lastState, credits, revisions, episodes, disturbed, raises>>

(* Mutant: the state stays for the next summary.                           *)
Forgotten_Never == lastState

(* self._last_task_state = None, whoever made it.                          *)
Forgotten == NoTask

(* _create_episode: the key is the description, so another outcome of the  *)
(* same task is refused, and the refusal is only logged.                   *)
KeepEpisode(t) ==
  /\ cycles[t].phase = "episode"
  /\ episodes' = IF episodes[Describe[t]] = Untold
                 THEN [episodes EXCEPT ![Describe[t]] = cycles[t].outcome]
                 ELSE episodes
  /\ lastState' = Forgotten
  /\ cycles' = [cycles EXCEPT ![t] = [NewCycle EXCEPT !.phase = "done",
                                                    !.outcome = cycles[t].outcome]]
  /\ UNCHANGED <<served, credits, weighed, revisions, disturbed, raises>>

(* The extraction or the ledger raises: what was credited stays, and so    *)
(* does the state, and the client may ask again.                           *)
SummaryFails(t) ==
  /\ cycles[t].phase \in {"extract", "credit", "weigh"}
  /\ raises < MaxRaises
  /\ raises' = raises + 1
  /\ cycles' = [cycles EXCEPT ![t] = [NewCycle EXCEPT !.phase = "acting"]]
  /\ disturbed' = disturbed \cup {t, lastState}
  /\ UNCHANGED <<served, lastState, credits, weighed, revisions, episodes>>

(* A proposal of new weights is approved and applied, or the memory is     *)
(* invalidated.                                                            *)
HeadMoves(m) ==
  /\ revisions[m] > 0
  /\ \/ /\ revisions[m] < MaxRevisions
        /\ \E w \in weighed : w.mem = m /\ w.rev = revisions[m]
        /\ revisions' = [revisions EXCEPT ![m] = @ + 1]
     \/ revisions' = [revisions EXCEPT ![m] = 0]
  /\ UNCHANGED <<cycles, served, lastState, credits, weighed, episodes,
                 disturbed, raises>>

AgentLoopInit ==
  /\ cycles = [t \in Tasks |-> NewCycle]
  /\ served = [t \in Tasks |-> [procs |-> <<>>, mems |-> <<>>]]
  /\ lastState = NoTask
  /\ credits = [x \in Procedures \X Tasks |-> <<>>]
  /\ weighed = {}
  /\ revisions = [m \in Memories |-> 1]
  /\ episodes = [d \in {Describe[t] : t \in Tasks} |-> Untold]
  /\ disturbed = {}
  /\ raises = 0

AgentLoopNext ==
  \/ \E t \in Tasks :
       \/ Perceive(t) \/ Summarize(t) \/ Reflect(t) \/ Credit(t) \/ Weigh(t)
       \/ KeepEpisode(t) \/ SummaryFails(t)
  \/ \E m \in Memories : HeadMoves(m)

AgentLoopSpec == AgentLoopInit /\ [][AgentLoopNext]_agentVars
-----------------------------------------------------------------------------
Perceived(t) == cycles[t].phase = "done" /\ t \notin disturbed

(* A cycle that nothing overlapped and no failure met credits each         *)
(* procedure it was served once, with its own outcome, whatever summaries  *)
(* without a context come later (post_task_summary, reflect_on_task).      *)
CreditedOnce ==
  \A t \in Tasks : Perceived(t) =>
    \A p \in ToSet(served[t].procs) :
      credits[<<p, t>>] = <<cycles[t].outcome = "completed">>
=============================================================================

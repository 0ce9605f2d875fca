---------------------------- MODULE ReviewedLog ----------------------------
(***************************************************************************)
(* What the ledger promises of its memories, without heads, revisions,     *)
(* versions, clocks or keys: every memory is a log, and a log grows by one *)
(* reviewed entry at a time.  An author drafts an entry on a prefix of one *)
(* log, or as the beginning of a new one; a reviewer accepts it or it is   *)
(* dropped; and an accepted entry is appended only while the log is still  *)
(* the prefix it was drafted on.  Nothing else changes a log.              *)
(***************************************************************************)
EXTENDS Naturals, Sequences

CONSTANTS
  Logs,
  Drafts,
  NoLog     \* the log of a draft that begins a new one: none of Logs

VARIABLES
  log,      \* the entries of each log: the drafts appended to it
  drafts    \* the stage of each draft, its log and how much of it was seen

NoDraft == [stage |-> "none", log |-> NoLog, seen |-> 0]

Init ==
  /\ log = [f \in Logs |-> <<>>]
  /\ drafts = [d \in Drafts |-> NoDraft]

(* How much of a log an author may have seen.                              *)
Prefixes(f) == IF f = NoLog THEN {0} ELSE 1..Len(log[f])

Submit(d, f, n) ==
  /\ drafts[d] = NoDraft
  /\ drafts' = [drafts EXCEPT ![d] = [stage |-> "open", log |-> f, seen |-> n]]
  /\ UNCHANGED log

Accept(d) ==
  /\ drafts[d].stage = "open"
  /\ drafts' = [drafts EXCEPT ![d].stage = "accepted"]
  /\ UNCHANGED log

Drop(d) ==
  /\ drafts[d].stage \in {"open", "accepted"}
  /\ drafts' = [drafts EXCEPT ![d].stage = "dropped"]
  /\ UNCHANGED log

AppendTo(f, d) ==
  /\ drafts[d].stage = "accepted"
  /\ drafts[d].log \in {f, NoLog}
  /\ Len(log[f]) = drafts[d].seen
  /\ log' = [log EXCEPT ![f] = Append(@, d)]
  /\ drafts' = [drafts EXCEPT ![d].stage = "appended"]

Next ==
  \E d \in Drafts :
    \/ \E f \in Logs \cup {NoLog} : \E n \in Prefixes(f) : Submit(d, f, n)
    \/ Accept(d)
    \/ Drop(d)
    \/ \E f \in Logs : AppendTo(f, d)

Spec == Init /\ [][Next]_<<log, drafts>>
=============================================================================

----------------------------- MODULE DailyScan -----------------------------
(***************************************************************************)
(* The scan of GitHub and Shortcut: DailyScanService.run_scan, which a     *)
(* cron job, a startup job, system.jobs.run and system.scan.full start, so *)
(* that several may overlap, and PRMemoryService.create_pr_memory, which   *)
(* proposes one memory for a pull request under the key                    *)
(* pr-memory:<id>, whatever the pull request says by then.                 *)
(*                                                                         *)
(* gh and Shortcut are not part of the code: gh lists at most a page of    *)
(* pull requests, the newest first, merged or not.  What a pull request    *)
(* says changes while scans run; that it was merged stands for its changes *)
(* of any kind (title, body, files).                                       *)
(***************************************************************************)
EXTENDS Naturals, Sequences, SequencesExt

CONSTANTS
  Scans,      \* scans
  Repos,      \* repositories configured, in order: a sequence
  PullsOf,    \* the pull requests of each repository, the newest first
  Today,      \* how many of each repository were created today
  Page        \* --limit

AllPulls == UNION {ToSet(PullsOf[r]) : r \in ToSet(Repos)}

ASSUME DailyScanAssumption ==
  /\ Repos \in Seq(DOMAIN PullsOf) /\ Page \in Nat
  /\ \A r \in ToSet(Repos) :
       /\ PullsOf[r] \in Seq(AllPulls) /\ IsInjective(PullsOf[r])
       /\ Today[r] \in 0..Len(PullsOf[r])

VARIABLES
  scans,     \* what each scan is doing and the result it will return
  merged,    \* the pull requests merged on GitHub
  memories   \* the memory proposed for each pull request

scanVars == <<scans, merged, memories>>

Shortcut == "shortcut"
NoMemory == [kept |-> FALSE, merged |-> FALSE]
IdleScan == [phase |-> "idle", full |-> FALSE, repo |-> 1, todo |-> <<>>,
             tried |-> {}, new |-> {}, errors |-> {}]
-----------------------------------------------------------------------------
(* gh pr list --search created:>=since --limit Page: today's pull requests *)
(* are the first ones.                                                     *)
Listed(r, full) ==
  LET found == IF full THEN Len(PullsOf[r]) ELSE Today[r]
  IN SubSeq(PullsOf[r], 1, IF found < Page THEN found ELSE Page)

(* What the scan does after a repository: the next one, or the cards.      *)
Onward(scan) ==
  IF scan.repo = Len(Repos)
  THEN [scan EXCEPT !.phase = "cards", !.todo = <<>>]
  ELSE [scan EXCEPT !.phase = "fetch", !.todo = <<>>, !.repo = @ + 1]

(* Mutant: an exception ends the whole scan, not the one of its repository. *)
Failed_All(scan) ==
  [scan EXCEPT !.phase = "cards", !.todo = <<>>, !.errors = @ \cup {Repos[scan.repo]}]

(* The except clause of the loop over the repositories.                    *)
Failed(scan) == Onward([scan EXCEPT !.errors = @ \cup {Repos[scan.repo]}])

(* The loop over the pull requests of a page.                              *)
Tried(scan) ==
  LET rest == [scan EXCEPT !.tried = @ \cup {Head(scan.todo).pull},
                           !.todo = Tail(@)]
  IN IF rest.todo = <<>> THEN Onward(rest) ELSE rest

Counted(scan) == Tried([scan EXCEPT !.new = @ \cup {Head(scan.todo)}])
-----------------------------------------------------------------------------
(* create_pr_memory: a first proposal, or the one that is there when it    *)
(* says the same.  Another content under the known key is refused.         *)
Memory(seen) == [kept |-> TRUE, merged |-> seen.merged]

Remembered(seen) == [memories EXCEPT ![seen.pull] = Memory(seen)]

Accepts(seen) == memories[seen.pull] \in {NoMemory, Memory(seen)}
-----------------------------------------------------------------------------
StartScan(s, full) ==
  /\ scans[s].phase = "idle"
  /\ scans' = [scans EXCEPT ![s] = [@ EXCEPT
       !.phase = IF Repos = <<>> THEN "cards" ELSE "fetch", !.full = full]]
  /\ UNCHANGED <<merged, memories>>

(* _fetch_github_prs: a page as it is now, or an error of gh.              *)
FetchPulls(s) ==
  /\ scans[s].phase = "fetch"
  /\ \/ LET r == Repos[scans[s].repo]
            page == Listed(r, scans[s].full)
        IN scans' = [scans EXCEPT ![s] =
             IF page = <<>> THEN Onward(scans[s])
             ELSE [scans[s] EXCEPT !.phase = "pulls",
                     !.todo = [i \in DOMAIN page |->
                       [pull |-> page[i], merged |-> page[i] \in merged]]]]
     \/ scans' = [scans EXCEPT ![s] = Failed(scans[s])]
  /\ UNCHANGED <<merged, memories>>

(* _ingest_pr with the files that gh pr diff lists.  What create_pr_memory *)
(* refuses is a warning.                                                   *)
IngestPull(s) ==
  /\ scans[s].phase = "pulls"
  /\ LET seen == Head(scans[s].todo)
     IN IF Accepts(seen)
        THEN /\ memories' = Remembered(seen)
             /\ scans' = [scans EXCEPT ![s] = Counted(scans[s])]
        ELSE /\ scans' = [scans EXCEPT ![s] = Tried(scans[s])]
             /\ UNCHANGED memories
  /\ UNCHANGED merged

(* gh pr diff fails, is late or lists nothing: no files.  The command      *)
(* refuses an empty list before the try of _ingest_pr, and the exception   *)
(* ends the repository's scan.                                             *)
UnreadDiff(s) ==
  /\ scans[s].phase = "pulls"
  /\ scans' = [scans EXCEPT ![s] = Failed(scans[s])]
  /\ UNCHANGED <<merged, memories>>

(* The ledger cannot be reached: the pull request is skipped.              *)
SkipPull(s) ==
  /\ scans[s].phase = "pulls"
  /\ scans' = [scans EXCEPT ![s] = Tried(scans[s])]
  /\ UNCHANGED <<merged, memories>>

(* _scan_shortcut_cards.  A card is no kind of raw event, so each one is   *)
(* refused and none is kept; an error of Shortcut is one line.             *)
ScanCards(s) ==
  /\ scans[s].phase = "cards"
  /\ \E cards \in {{}, {Shortcut}} :
       scans' = [scans EXCEPT ![s].phase = "done", ![s].errors = @ \cup cards]
  /\ UNCHANGED <<merged, memories>>

MergePull(p) ==
  /\ p \notin merged
  /\ merged' = merged \cup {p}
  /\ UNCHANGED <<scans, memories>>

DailyScanInit ==
  /\ scans = [s \in Scans |-> IdleScan]
  /\ merged \in SUBSET AllPulls
  /\ memories = [p \in AllPulls |-> NoMemory]

DailyScanNext ==
  \/ \E s \in Scans :
       \/ \E full \in BOOLEAN : StartScan(s, full)
       \/ FetchPulls(s) \/ IngestPull(s) \/ UnreadDiff(s) \/ SkipPull(s) \/ ScanCards(s)
  \/ \E p \in AllPulls : MergePull(p)

DailyScanSpec == DailyScanInit /\ [][DailyScanNext]_scanVars
-----------------------------------------------------------------------------
(* However gh and the ledger fail, each repository of a finished scan has  *)
(* had its page tried to the end or has a line among the errors (the       *)
(* except clause of _scan_github_prs): one repository's failure hides no   *)
(* other.  And what a scan counts is remembered, as that scan saw it,      *)
(* however scans overlap and pull requests change between them.            *)
EveryRepoIsAccounted ==
  \A s \in Scans :
    /\ scans[s].phase = "done" =>
         \A r \in ToSet(Repos) :
           r \in scans[s].errors
           \/ ToSet(Listed(r, scans[s].full)) \subseteq scans[s].tried
    /\ \A seen \in scans[s].new : memories[seen.pull] = Memory(seen)
=============================================================================

------------------------------ MODULE Capture ------------------------------
(***************************************************************************)
(* How candidates become proposals: the post-commit hook, the agent loop   *)
(* and manual authoring extract candidates, the chain of admission gates   *)
(* looks for a similar memory in the vector index, and propose_candidate   *)
(* turns what it answers into a creation, an update or a refinement.       *)
(*                                                                         *)
(* A hook is a process of its own: several run at once, each one awaits    *)
(* between its steps, and any of them may be killed.  The file of the      *)
(* processed commits and the vector index are not part of the ledger, and  *)
(* the index lags behind it.  A candidate's identifier is made from its    *)
(* project, type and title (MemoryItem.generate_id), so two candidates     *)
(* with one title are the same memory.                                     *)
(***************************************************************************)
EXTENDS Ledger

CONSTANTS
  Hooks,       \* concurrent captures
  Commits,     \* commits captured, each one with its session and its PR
  Manual,      \* the source of a candidate that comes from no commit
  Candidates,  \* [id, content, sound]: sound passes the last two gates
  Extractions, \* what an extraction may return: sequences of candidates
  Similar,     \* pairs of identifiers that the index finds close
  MaxCrashes   \* bound on the hooks killed

Sources == Commits \cup {Manual}
Torn == "torn"

ASSUME CaptureAssumption ==
  /\ \A c \in Candidates :
       c \in [id: LegacyIds, content: Contents, sound: BOOLEAN]
  /\ \A batch \in Extractions : batch \in Seq(Candidates)
  /\ Similar \subseteq LegacyIds \X LegacyIds
  /\ Manual \notin Commits /\ Torn \notin Commits
  /\ MaxCrashes \in Nat

VARIABLES
  hooks,    \* what each capture is doing
  marks,    \* the lines of the file of processed commits
  index,    \* the identifiers that the vector index holds
  origins,  \* where each proposal came from: its source and candidate
  crashes   \* hooks killed

captureVars == <<hooks, marks, index, origins, crashes>>
allVars == <<ledgerVars, captureVars>>

NoAction == [kind |-> "none", related |-> NoAlias]
IdleHook == [phase |-> "idle", source |-> Manual, todo |-> <<>>,
             action |-> NoAction, open |-> FALSE]
NoOrigin == [source |-> Manual, id |-> NoAlias]
-----------------------------------------------------------------------------
(* JsonlCaptureState.  contains stops at a line it cannot parse.  A record *)
(* written after a line without an end becomes part of that line.          *)
Contains(c) ==
  \E i \in DOMAIN marks : marks[i] = c /\ \A j \in 1..i : marks[j] # Torn

Marked(line) ==
  IF marks # <<>> /\ marks[Len(marks)] = Torn THEN marks ELSE Append(marks, line)
-----------------------------------------------------------------------------
(* The admission gates.                                                    *)

(* DuplicateGate: any of the close memories may have the best score.       *)
Matches(id) == {a \in index : a = id \/ <<a, id>> \in Similar}

(* A match answers before the gates of context and weight are asked.       *)
Admissions(candidate) ==
  IF Matches(candidate.id) # {}
  THEN {IF a = candidate.id THEN [kind |-> "update", related |-> NoAlias]
        ELSE [kind |-> "refine", related |-> a] : a \in Matches(candidate.id)}
  ELSE IF candidate.sound THEN {[kind |-> "create", related |-> NoAlias]}
  ELSE {NoAction}
-----------------------------------------------------------------------------
(* propose_candidate.                                                      *)

(* Mutant: every attempt has a key of its own.                             *)
KeyOf_Fresh(source, candidate) == NoKey

(* A candidate of a commit is named by the commit and its title, another   *)
(* one by its title and what it says.                                      *)
KeyOf(source, candidate) ==
  IF source = Manual THEN <<"candidate", candidate.id, candidate.content>>
  ELSE <<"post-commit", source, candidate.id>>

(* A capture is one of the ledger's clients: a key that it brings is among *)
(* those that clients may choose.                                          *)
ASSUME CaptureKeysAssumption ==
  /\ \A source \in Sources, c \in Candidates : KeyOf(source, c) \in Keys \cup {NoKey}
  /\ Requesters # {}

Known(key) == {p \in ProposalIds : key # NoKey /\ proposals[p].key = key}

Named(a) == AliasFamily(a)

Creation(candidate, key, who) ==
  [Draft("create", who) EXCEPT
     !.content = candidate.content, !.legacy = candidate.id, !.key = key]

(* A memory that the identifier names is updated; an update of one that    *)
(* it does not name, or not alone, becomes a creation.                     *)
Update(f, candidate, key, who) ==
  [Draft("update", who) EXCEPT
     !.target = f, !.content = candidate.content,
     !.base = {heads[f].revision}, !.expected = {HeadPair(f)}, !.key = key]

RefinementOf(t, candidate, key, who) ==
  [Draft("create_and_link", who) EXCEPT
     !.content = candidate.content, !.legacy = candidate.id,
     !.expected = {HeadPair(t)}, !.relation = "REFINES",
     !.relationTarget = t, !.key = key]

(* Mutant: what is found is what is updated.                               *)
Addressed_Found(candidate, action) ==
  IF action.kind = "create" THEN candidate.id
  ELSE IF action.kind = "refine" THEN action.related ELSE candidate.id

(* The memory that an update addresses.                                    *)
Addressed(candidate, action) == candidate.id

Updates(candidate, action) ==
  action.kind # "create" /\ Resolves(Addressed(candidate, action))
  /\ (action.kind = "update" \/ Addressed(candidate, action) # candidate.id)

Preview(candidate, action, key, who) ==
  IF Updates(candidate, action)
  THEN Update(Named(Addressed(candidate, action)), candidate, key, who)
  ELSE IF action.kind = "refine"
  THEN RefinementOf(Named(action.related), candidate, key, who)
  ELSE Creation(candidate, key, who)

ActiveHead(a) ==
  /\ Resolves(a)
  /\ HasHead(Named(a))
  /\ View(heads[Named(a)].revision) = "active"

(* propose_create refuses an identifier that names a memory, unless its    *)
(* key is known; propose_create_and_link does not ask.                     *)
Proposable(candidate, action, key) ==
  IF Updates(candidate, action) THEN ActiveHead(Addressed(candidate, action))
  ELSE IF action.kind = "refine" THEN ActiveHead(action.related)
  ELSE Known(key) # {} \/ ~Resolves(candidate.id)

(* What the preview hash is made of.                                       *)
SamePreview(q, draft) ==
  /\ q.operation = draft.operation /\ q.target = draft.target
  /\ q.content = draft.content /\ q.expected = draft.expected
  /\ q.relationTarget = draft.relationTarget
-----------------------------------------------------------------------------
(* CommitMemoryCaptureService.capture, and create_manual_memory as a       *)
(* capture of one candidate that has no commit.                            *)

Set(h, hook) == hooks' = [hooks EXCEPT ![h] = hook]

(* The extractor is a language model: what it returns for a commit is not  *)
(* the same twice.  It reads nothing of this state, so its call is one     *)
(* step with the reading of the file; when it fails nothing is marked.     *)
Begin(h, source) ==
  /\ hooks[h].phase = "idle"
  /\ source # Manual => ~Contains(source)
  /\ \E batch \in Extractions :
       /\ source = Manual => Len(batch) = 1
       /\ Set(h, [IdleHook EXCEPT !.phase = "work", !.source = source,
                                  !.todo = batch])
  /\ UNCHANGED <<ledgerVars, marks, index, origins, crashes>>

Admit(h) ==
  /\ hooks[h].phase = "work" /\ hooks[h].todo # <<>>
  /\ \E action \in Admissions(Head(hooks[h].todo)) :
       Set(h, IF action = NoAction
              THEN [hooks[h] EXCEPT !.todo = Tail(@)]
              ELSE [hooks[h] EXCEPT !.phase = "persist", !.action = action])
  /\ UNCHANGED <<ledgerVars, marks, index, origins, crashes>>

(* An error, and a proposal that waits for its approval, leave the capture *)
(* open: it will not be marked.                                            *)
Settle(h) ==
  Set(h, [hooks[h] EXCEPT !.phase = "work", !.todo = Tail(@),
                          !.action = NoAction, !.open = TRUE])

Persist(h) ==
  LET candidate == Head(hooks[h].todo)
      key == KeyOf(hooks[h].source, candidate)
      who == CHOOSE r \in Requesters : TRUE
  IN
  /\ hooks[h].phase = "persist"
  /\ Settle(h)
  /\ \/ /\ Proposable(candidate, hooks[h].action, key)
        /\ Known(key) = {} /\ FreeProposals # {}
        /\ origins' = [origins EXCEPT ![Min(FreeProposals)] =
             [source |-> hooks[h].source, id |-> candidate.id]]
        /\ Save(Preview(candidate, hooks[h].action, key, who))
     \/ (* The proposal of the key is given back, or an error is. *)
        /\ \/ ~Proposable(candidate, hooks[h].action, key)
           \/ Known(key) # {}
        /\ UNCHANGED <<ledgerVars, origins>>
  /\ UNCHANGED <<marks, index, crashes>>

(* Nothing found, or nothing admitted.                                     *)
Finish(h) ==
  /\ hooks[h].phase = "work" /\ hooks[h].todo = <<>>
  /\ marks' = IF hooks[h].open \/ hooks[h].source = Manual THEN marks
              ELSE Marked(hooks[h].source)
  /\ Set(h, IdleHook)
  /\ UNCHANGED <<ledgerVars, index, origins, crashes>>

(* A hook is killed, perhaps while it writes its line.                     *)
Crash(h) ==
  /\ hooks[h].phase # "idle"
  /\ crashes < MaxCrashes
  /\ crashes' = crashes + 1
  /\ \/ UNCHANGED marks
     \/ /\ hooks[h].phase = "work" /\ hooks[h].todo = <<>> /\ ~hooks[h].open
        /\ marks' = Marked(Torn)
  /\ Set(h, IdleHook)
  /\ UNCHANGED <<ledgerVars, index, origins>>

(* The projection catches up with the ledger.                              *)
Materialize ==
  /\ index' = {families[f].legacy :
                 f \in {g \in FamilyIds : HasHead(g) /\ EffectiveNow(g) # None}}
                \cap LegacyIds
  /\ UNCHANGED <<ledgerVars, hooks, marks, origins, crashes>>
-----------------------------------------------------------------------------
CaptureInit ==
  /\ Init
  /\ hooks = [h \in Hooks |-> IdleHook]
  /\ marks = <<>>
  /\ index = {}
  /\ origins = [p \in ProposalIds |-> NoOrigin]
  /\ crashes = 0

Work(h) ==
  \/ \E source \in Sources : Begin(h, source)
  \/ Admit(h)
  \/ Persist(h)
  \/ Finish(h)
  \/ Crash(h)

CaptureNext ==
  \/ Next /\ UNCHANGED captureVars
  \/ \E h \in Hooks : Work(h)
  \/ Materialize

CaptureSpec == CaptureInit /\ [][CaptureNext]_allVars
-----------------------------------------------------------------------------
(* Properties.                                                             *)

(* A commit publishes a title once, however often and by however many      *)
(* hooks it is captured, whatever the extraction returned each time, and   *)
(* whether or not the file of the processed commits survived.              *)
CapturedOnce ==
  \A r, s \in RevisionIds :
    LET from == origins[revisions[r].proposal]
    IN Published(r) /\ Published(s) /\ from.source \in Commits
         /\ from = origins[revisions[s].proposal] => r = s

(* A candidate never becomes a revision of a memory with another title,    *)
(* whatever the index found close to it.                                   *)
NeverOverwritesAnother ==
  \A r \in RevisionIds :
    LET from == origins[revisions[r].proposal]
    IN Published(r) /\ from # NoOrigin =>
         families[revisions[r].family].legacy = from.id
=============================================================================

------------------------------- MODULE Search -------------------------------
(***************************************************************************)
(* HybridSearchService.search: what Qdrant finds by the dense and by the   *)
(* sparse vector and the effective revisions of the ledger are read at the *)
(* same time, fused by rank, thinned and weighed.  Meanwhile heads move,   *)
(* and the materializer brings Qdrant's points after them (Projection).    *)
(*                                                                         *)
(* Similarities, the composite score and the reranker are left open: they  *)
(* may rank in any order.  Weights and summaries are constants.            *)
(***************************************************************************)
EXTENDS Integers, FiniteSets, Sequences, SequencesExt

CONSTANTS
  Recorded,    \* the memories of the project, in the order of the ledger
  Summary,     \* the summary of each memory, which others may share
  Heavy,       \* the memories whose weight reaches min_weight
  Relations,   \* traversable relations, in the order of the ledger: pairs of memories
  TopK,        \* top_k
  Multiplier,  \* candidate_multiplier
  MaxSeeds,    \* how many of what was found activate others
  MaxChanges   \* bound on the changes of heads

Found == ToSet(Recorded)

ASSUME SearchAssumption ==
  /\ Recorded \in Seq(Found) /\ IsInjective(Recorded) /\ Heavy \subseteq Found
  /\ Relations \in Seq(ToSet(Relations))
  /\ {TopK, Multiplier, MaxSeeds, MaxChanges} \subseteq Nat

VARIABLES
  versions,  \* [last, live]: the last change of each head, and whether it
             \* published a revision, of that number, or retired the memory
  points,    \* the revision in the point of each memory, 0 for none
  search     \* the search there is

searchVars == <<versions, points, search>>

NoSearch == [phase |-> "idle", weighed |-> FALSE, strict |-> FALSE, todo |-> {},
             dense |-> <<>>, sparse |-> <<>>, rows |-> <<>>, spread |-> <<>>,
             answer |-> <<>>, calm |-> FALSE]

Now(m) == IF versions[m].live THEN versions[m].last ELSE 0
Limit == TopK * Multiplier
Cut(s, n) == SubSeq(s, 1, IF Len(s) < n THEN Len(s) ELSE n)
IdsOf(rows) == [i \in DOMAIN rows |-> rows[i].mem]

(* The elements of s that are in the set, in their order.                  *)
Within(s, set) ==
  LET upTo[n \in 0..Len(s)] ==
        IF n = 0 THEN <<>>
        ELSE IF s[n] \in set THEN Append(upTo[n - 1], s[n]) ELSE upTo[n - 1]
  IN upTo[Len(s)]
-----------------------------------------------------------------------------
(* The branches.                                                           *)

(* qdrant.search: points in any order, as far as the threshold lets them.  *)
Hits == {s \in UNION {[1..n -> {m \in Found : points[m] > 0}] : n \in 0..Limit} :
           IsInjective(s)}
RowsOf(s) == [i \in DOMAIN s |-> [mem |-> s[i], rev |-> points[s[i]]]]

(* Mutant: a retired memory is a row too.                                  *)
GraphRows_Retired ==
  Cut([i \in DOMAIN Recorded |-> [mem |-> Recorded[i], rev |-> versions[Recorded[i]].last]],
      Limit)

(* _graph_rows: the effective revisions, cut before they are weighed.      *)
GraphRows ==
  LET live == Within(Recorded, {m \in Found : versions[m].live})
  IN Cut([i \in DOMAIN live |-> [mem |-> live[i], rev |-> Now(live[i])]], Limit)
-----------------------------------------------------------------------------
(* reciprocal_rank_fusion.  Scores are times the Scale, which each 60 +    *)
(* rank divides, and times ten.                                            *)
Scale ==
  LET product[n \in 0..Len(Recorded)] == IF n = 0 THEN 1 ELSE (60 + n) * product[n - 1]
  IN product[Len(Recorded)]
Weighted(list, weight) == [list |-> list, weight |-> weight]
Lists ==
  <<Weighted(IdsOf(search.dense), 10), Weighted(IdsOf(search.sparse), 10),
    Weighted(IdsOf(search.rows), 4), Weighted(search.spread, 6)>>

RankOf(list, m) == SelectInSeq(list, LAMBDA x : x = m)
Part(ranked, m) ==
  IF m \in ToSet(ranked.list)
  THEN ranked.weight * (Scale \div (60 + RankOf(ranked.list, m))) ELSE 0

Score(lists, m) == FoldLeft(LAMBDA sum, ranked : sum + Part(ranked, m), 0, lists)

(* The scores in order; of equal ones, what was met first.                 *)
Fused(lists) ==
  LET met == FoldLeft(LAMBDA ids, ranked : ids \o ranked.list, <<>>, lists)
      Before(a, b) ==
        \/ Score(lists, a) > Score(lists, b)
        \/ Score(lists, a) = Score(lists, b) /\ RankOf(met, a) < RankOf(met, b)
  IN SetToSortSeq(ToSet(met), LAMBDA a, b : a # b /\ Before(a, b))

(* _diversify: the first two of a summary, of what a branch has a row for. *)
Rows == ToSet(search.dense) \cup ToSet(search.sparse) \cup ToSet(search.rows)
Served == {row.mem : row \in Rows}
AlikeBefore(fused, i) ==
  {j \in 1..i - 1 : fused[j] \in Served /\ Summary[fused[j]] = Summary[fused[i]]}
Diversified(fused) ==
  {fused[i] : i \in {k \in DOMAIN fused :
                       fused[k] \in Served /\ Cardinality(AlikeBefore(fused, k)) < 2}}

(* min_weight, of both kinds of search.                                    *)
Weighty == {m \in Found : search.weighed => m \in Heavy}

(* The loop that makes pre_rerank.                                         *)
Candidates(fused) == Diversified(fused) \cap Weighty

(* by_id: the row of the ledger, updated with those of Qdrant.  A point    *)
(* has the title, and what else is ranked by, but not the body.            *)
RevIn(rows, m) ==
  IF m \in ToSet(IdsOf(rows)) THEN rows[RankOf(IdsOf(rows), m)].rev ELSE 0
Item(m) ==
  [mem |-> m, body |-> RevIn(search.rows, m),
   title |-> IF RevIn(search.dense, m) > 0 THEN RevIn(search.dense, m)
             ELSE IF RevIn(search.sparse, m) > 0 THEN RevIn(search.sparse, m)
             ELSE RevIn(search.rows, m)]
-----------------------------------------------------------------------------
(* SpreadingActivationService._activate_ledger, two rounds from the seeds. *)
(* Scores are times four, and each round halves them.                      *)

(* Mutant: a relation is followed one way only.                            *)
Neighbor_Target(frontier, rel) == rel[2]

Neighbor(frontier, rel) == IF rel[1] \in frontier THEN rel[2] ELSE rel[1]

Spread(state, rel) ==
  LET near == Neighbor(state.frontier, rel)
      from == IF rel[1] \in state.frontier THEN rel[1] ELSE rel[2]
      half == state.scores[from] \div 2
  IN IF {rel[1], rel[2]} \cap state.frontier = {} \/ near \notin Found THEN state
     ELSE [state EXCEPT !.scores[near] = IF half > @ THEN half ELSE @,
                        !.reached = @ \cup {near}]

Round(scores, frontier) ==
  LET after[n \in 0..Len(Relations)] ==
        IF n = 0 THEN [scores |-> scores, frontier |-> frontier, reached |-> {}]
        ELSE Spread(after[n - 1], Relations[n])
  IN after[Len(Relations)]

Activation(seeds) ==
  LET first == Round([m \in Found |-> IF m \in seeds THEN 4 ELSE 0], seeds)
  IN Round(first.scores, first.reached).scores

(* The first MaxSeeds of what the dense vector and then the sparse one     *)
(* found, each memory once.                                                *)
Seeds ==
  LET met == IdsOf(search.dense) \o IdsOf(search.sparse)
      Earlier(m) == {x \in ToSet(met) : RankOf(met, x) < RankOf(met, m)}
  IN {m \in ToSet(met) : Cardinality(Earlier(m)) < MaxSeeds}

(* The activated memories, those of equal score in any order.              *)
Activated(seeds) ==
  LET scores == Activation(seeds)
      live == {m \in Found : scores[m] > 0}
  IN Cut(SetToSortSeq(live, LAMBDA a, b : scores[a] > scores[b]), Limit)
-----------------------------------------------------------------------------
Changes == FoldLeft(LAMBDA sum, m : sum + versions[m].last - 1, 0, Recorded)

Publish(m) ==
  /\ Changes < MaxChanges
  /\ versions' = [versions EXCEPT ![m] = [last |-> @.last + 1, live |-> TRUE]]
  /\ search' = [search EXCEPT !.calm = FALSE]
  /\ UNCHANGED points

Retire(m) ==
  /\ versions[m].live /\ Changes < MaxChanges
  /\ versions' = [versions EXCEPT ![m] = [last |-> @.last + 1, live |-> FALSE]]
  /\ search' = [search EXCEPT !.calm = FALSE]
  /\ UNCHANGED points

Materialize(m) ==
  /\ points[m] # Now(m)
  /\ points' = [points EXCEPT ![m] = Now(m)]
  /\ search' = [search EXCEPT !.calm = FALSE]
  /\ UNCHANGED versions

(* With a query, and with or without the sparse vectors, or without one.   *)
StartSearch(branches, byWeight, strict) ==
  /\ search.phase \in {"idle", "answered"}
  /\ search' = [NoSearch EXCEPT
       !.phase = IF branches = {"graph"} THEN "browsing" ELSE "reading",
       !.todo = branches, !.weighed = byWeight, !.strict = strict,
       !.calm = \A m \in Found : points[m] = Now(m)]
  /\ UNCHANGED <<versions, points>>

(* The branches of asyncio.gather.                                         *)
ReadDense ==
  /\ "dense" \in search.todo
  /\ \E hits \in Hits :
       search' = [search EXCEPT !.todo = @ \ {"dense"}, !.dense = RowsOf(hits)]
  /\ UNCHANGED <<versions, points>>

ReadSparse ==
  /\ "sparse" \in search.todo
  /\ \E hits \in Hits :
       search' = [search EXCEPT !.todo = @ \ {"sparse"}, !.sparse = RowsOf(hits)]
  /\ UNCHANGED <<versions, points>>

ReadRows ==
  /\ "graph" \in search.todo
  /\ search' = [search EXCEPT !.todo = @ \ {"graph"}, !.rows = GraphRows]
  /\ UNCHANGED <<versions, points>>

(* Without a query: the rows, weighed.                                     *)
Browse ==
  /\ search.phase = "browsing" /\ search.todo = {}
  /\ LET heavy == Within(IdsOf(search.rows), Weighty)
         items == [i \in DOMAIN heavy |-> Item(heavy[i])]
     IN search' = [search EXCEPT !.phase = "answered", !.answer = Cut(items, TopK)]
  /\ UNCHANGED <<versions, points>>

(* The threshold left no vector: nothing is answered.                      *)
GiveUp ==
  /\ search.phase = "reading" /\ search.todo = {}
  /\ search.strict /\ search.dense = <<>>
  /\ search' = [search EXCEPT !.phase = "answered"]
  /\ UNCHANGED <<versions, points>>

Activate ==
  /\ search.phase = "reading" /\ search.todo = {}
  /\ ~(search.strict /\ search.dense = <<>>)
  /\ search' = [search EXCEPT !.phase = "fusing", !.spread = Activated(Seeds)]
  /\ UNCHANGED <<versions, points>>

(* The scores put the candidates into some order, of which TopK are served.*)
Answer ==
  /\ search.phase = "fusing"
  /\ LET candidates == Candidates(Fused(Lists))
         room == IF Cardinality(candidates) < TopK THEN Cardinality(candidates) ELSE TopK
     IN \E order \in {s \in [1..room -> candidates] : IsInjective(s)} :
          search' = [search EXCEPT !.phase = "answered",
                       !.answer = [i \in DOMAIN order |-> Item(order[i])]]
  /\ UNCHANGED <<versions, points>>

SearchInit ==
  /\ versions = [m \in Found |-> [last |-> 1, live |-> TRUE]]
  /\ points = [m \in Found |-> 1]
  /\ search = NoSearch

SearchNext ==
  \/ \E m \in Found : Publish(m) \/ Retire(m) \/ Materialize(m)
  \/ \E branches \in {{"graph"}, {"dense", "graph"}, {"dense", "sparse", "graph"}},
        byWeight, strict \in BOOLEAN : StartSearch(branches, byWeight, strict)
  \/ ReadDense \/ ReadSparse \/ ReadRows \/ Browse \/ GiveUp \/ Activate \/ Answer

SearchSpec == SearchInit /\ [][SearchNext]_searchVars
-----------------------------------------------------------------------------
(* The activation of a memory is one half to the power of its distance from *)
(* the seeds, up to two, in whichever order the ledger lists the relations  *)
(* (_activate_ledger).                                                     *)
Beside(set) ==
  {m \in Found : \E rel \in ToSet(Relations) : m \in {rel[1], rel[2]} /\ {rel[1], rel[2]} \cap set # {}}
ActivationIsDistance ==
  search.phase = "fusing" =>
    Activation(Seeds) =
      [m \in Found |-> IF m \in Seeds THEN 4
                       ELSE IF m \in Beside(Seeds) THEN 2
                       ELSE IF m \in Beside(Beside(Seeds)) THEN 1 ELSE 0]

(* When Qdrant had caught up and nothing moved during the search, each     *)
(* item is the head of its memory, and no item is of a retired one (search, *)
(* _graph_rows).                                                           *)
CalmSearchIsExact ==
  search.phase = "answered" /\ search.calm =>
    \A item \in ToSet(search.answer) :
      /\ item.title = Now(item.mem) /\ item.title # 0
      /\ item.body \in {0, item.title}

(* qdrant_service.py:438 says of the title in a point that it is there     *)
(* "apenas para ranking; respostas devem hidratar o ledger": what is       *)
(* served is one revision, as the ledger had it.                           *)
ResponsesHydrateTheLedger ==
  search.phase = "answered" =>
    \A item \in ToSet(search.answer) : item.title = item.body
=============================================================================

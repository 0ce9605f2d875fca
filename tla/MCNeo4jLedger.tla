--------------------------- MODULE MCNeo4jLedger ---------------------------
(* Instances of Neo4jLedger for TLC.                                       *)
EXTENDS Neo4jLedger, TLC

CONSTANTS c1, c2, o1, o2

MCSymmetry == Permutations(Clients) \cup Permutations(Operators)

(* The previews say different things about one conflict.                   *)
MCSnapshots ==
  [preview \in Previews |-> {[id |-> 1, hash |-> preview]}]

MCRow(value, status, count, to) ==
  [legacy |-> "a1", value |-> value, status |-> status, count |-> count,
   from |-> 2, to |-> to]

MCListings ==
  {<<MCRow("v1", "active", 1, 3)>>,
   <<MCRow("v1", "active", 2, 3), MCRow("v2", "success", 1, 0)>>,
   <<MCRow("v1", "active", 1, 3), MCRow("v2", "success", 1, 0)>>}

(* The approval workflow and the migrations write different nodes: a run   *)
(* of the model takes one of them, so that the states are added and not    *)
(* multiplied.                                                             *)
VARIABLE focus

MCInit == Init /\ focus \in {"workflow", "intake"}

MCNext ==
  /\ Next
  /\ UNCHANGED focus
  /\ focus = "workflow" => runs' = 0 /\ now' < 3
  /\ focus = "intake" => \A c \in Clients : calls'[c].op \in {"idle", "usage"}

MCSpec == MCInit /\ [][MCNext]_<<vars, focus>>
=============================================================================

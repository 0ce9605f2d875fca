------------------------------ MODULE Catalog ------------------------------
(***************************************************************************)
(* The catalog of projects, categories and domains: GraphCatalogService    *)
(* and GraphOperationsService over Neo4jCatalogMixin, and the import and   *)
(* export of CSV bundles (CatalogCsvService).                              *)
(*                                                                         *)
(* Every query is a transaction of its own: creating a node takes several, *)
(* an import one node after another, and other clients' queries run in     *)
(* between.  A query finds a node by its id, its name or its slug, in the  *)
(* whole graph: a category is not looked up inside its project.            *)
(*                                                                         *)
(* A reference is what a client may call a node by, as a sequence: a slug  *)
(* <<s>>, a name <<n>>, or an id, the hash of kind, slug and the parent's  *)
(* reference, which is the sequence of the three.                          *)
(***************************************************************************)
EXTENDS Naturals, Sequences, SequencesExt

CONSTANTS
  CatalogClients, \* clients of the catalog
  Bundles,        \* bundles imported: the rows of the file of each kind
  Commands,       \* rows that create, update or relate nodes by themselves
  Unlinked,       \* relation rows that are deleted
  Discards,       \* nodes deleted: [kind, ref]
  Legacy,         \* nodes that memories made: a set of sets of nodes
  MaxNodes,       \* bound on the nodes
  MaxJobs         \* bound on the commands and the imports

Kinds == {"project", "category", "domain"}

FileKinds == Kinds \cup {"relation"}
NodeFields == {"key", "kind", "id", "slug", "name", "scope", "remembered"}

ASSUME CatalogAssumption ==
  /\ \A row \in Commands \cup Unlinked : row.kind \in FileKinds
  /\ \A bundle \in Bundles : \A kind \in FileKinds :
       /\ bundle[kind] \in Seq(ToSet(bundle[kind]))
       /\ \A row \in ToSet(bundle[kind]) : row.kind = kind
  /\ \A nodes \in Legacy : \A n \in nodes : DOMAIN n = NodeFields
  /\ MaxNodes \in Nat /\ MaxJobs \in Nat

VARIABLES
  graph,     \* nodes and the edges between them
  clients,   \* what each client is doing
  jobs       \* commands and imports begun

catalogVars == <<graph, clients, jobs>>

NoRef == <<>>
EmptyGraph == [nodes |-> {}, edges |-> {}]
NoClient == [phase |-> "idle", rows |-> <<>>, todo |-> <<>>, import |-> FALSE,
             alone |-> FALSE]

(* VALID_CATALOG_RELATIONSHIPS, as far as the instances tell them apart.   *)
Relationships == {"HAS_CATEGORY", "HAS_DOMAIN", "RELATED_TO"}

(* generate_catalog_id.                                                    *)
CatalogId(kind, slug, scope) == <<kind>> \o slug \o scope
-----------------------------------------------------------------------------
(* The queries.                                                            *)

(* _identity_where_clause.                                                 *)
Meets(n, row) ==
  n.kind = row.kind /\ (n.id = row.id \/ n.name = row.name \/ n.slug = row.slug)

(* _resolve_required_project and the ends of a relation: one text that is  *)
(* compared with id, name and slug.                                        *)
Called(g, kind, ref) ==
  {n \in g.nodes : n.kind = kind /\ ref # NoRef /\ ref \in {n.id, n.name, n.slug}}

(* The SET of both queries: the id that a node has is kept.                *)
Written(n, row) ==
  [n EXCEPT !.id = IF @ = NoRef THEN row.id ELSE @,
            !.slug = row.slug, !.name = row.name, !.scope = row.scope]

(* _upsert_catalog_node: all the nodes that meet the row.                  *)
Updated(g, row) ==
  [g EXCEPT !.nodes = {IF Meets(n, row) THEN Written(n, row) ELSE n : n \in g.nodes}]

(* _create_catalog_node: MERGE by name, of a node that is there.           *)
SameName(g, row) == {n \in g.nodes : n.kind = row.kind /\ n.name = row.name}
Overwritten(g, row) ==
  [g EXCEPT !.nodes = {IF n \in SameName(g, row) THEN Written(n, row) ELSE n
                         : n \in g.nodes}]

FreeKeys(g) == (1..MaxNodes) \ {n.key : n \in g.nodes}
Inserted(g, row) ==
  [g EXCEPT !.nodes = @ \cup
     {[key |-> CHOOSE k \in FreeKeys(g) : \A j \in FreeKeys(g) : k <= j,
       kind |-> row.kind, id |-> row.id, slug |-> row.slug, name |-> row.name,
       scope |-> row.scope, remembered |-> FALSE]}]

(* The edges from the parents to the node, which may be several of each.   *)
ParentEdges(g, row) ==
  {[from |-> p.key, to |-> n.key,
    type |-> IF row.kind = "category" THEN "HAS_CATEGORY" ELSE "HAS_DOMAIN"] :
     p \in Called(g, "project", row.scope), n \in {m \in g.nodes : Meets(m, row)}}

RelationEdges(g, row) ==
  {[from |-> a.key, to |-> b.key, type |-> row.type] :
     a \in Called(g, row.fromKind, row.from), b \in Called(g, row.toKind, row.to)}

Joined(g, edges) == [g EXCEPT !.edges = @ \cup edges]
-----------------------------------------------------------------------------
(* The CSV bundles: a file of each kind.                                   *)

(* Mutant: the relations are created before the nodes.                     *)
InOrder_RelationsFirst(bundle) ==
  bundle["relation"] \o bundle["project"] \o bundle["category"] \o bundle["domain"]

(* The four files, in the order in which they are imported.                *)
InOrder(bundle) ==
  bundle["project"] \o bundle["category"] \o bundle["domain"] \o bundle["relation"]

(* _row_refs: of a row or of a node that is listed.                        *)
RowRefs(row) == {row.id, row.slug} \ {NoRef}

(* The references that are known, in the catalog or in the bundle.         *)
RowsOfKind(bundle, kinds) == UNION {ToSet(bundle[kind]) : kind \in kinds}
KnownRefs(g, bundle, kinds) ==
  UNION {RowRefs(n) : n \in {m \in g.nodes : m.kind \in kinds} \cup RowsOfKind(bundle, kinds)}

(* The checks before the first row is written: a slug, a known parent and  *)
(* known ends.  They ask neither what kind the ends are nor whether the    *)
(* type of the relation is one of Relationships.                           *)
Accepted(g, bundle) ==
  /\ \A row \in RowsOfKind(bundle, Kinds) : row.slug # NoRef
  /\ \A row \in RowsOfKind(bundle, {"category", "domain"}) :
       row.scope \in KnownRefs(g, bundle, {"project"})
  /\ \A row \in RowsOfKind(bundle, {"relation"}) :
       {row.from, row.to} \subseteq KnownRefs(g, bundle, Kinds)

NodeRow(n) == [kind |-> n.kind, id |-> n.id, slug |-> n.slug, name |-> n.name,
               scope |-> n.scope]

(* The command of a row: the id of the file is not used, but made anew.    *)
Command(row) ==
  IF row.kind = "relation" THEN row
  ELSE [NodeRow(row) EXCEPT !.id = CatalogId(row.kind, row.slug, row.scope)]
CommandsOf(rows) == [i \in DOMAIN rows |-> Command(rows[i])]

(* list_catalog_relations, as the rows of a bundle.                        *)
ListedAs(n) == IF n.id # NoRef THEN n.id ELSE n.name
KeyOf(g, key) == CHOOSE n \in g.nodes : n.key = key
RelationRow(g, edge) ==
  LET a == KeyOf(g, edge.from)
      b == KeyOf(g, edge.to)
  IN [kind |-> "relation", type |-> edge.type, from |-> ListedAs(a),
      fromKind |-> a.kind, to |-> ListedAs(b), toKind |-> b.kind]

(* export_catalog_csv_bundle, of the fields that name nodes and edges.     *)
(* Descriptions, aliases and tags are left out; the last two are joined    *)
(* with '|' and split there again, so one that contains a '|' comes back   *)
(* as two (_join_list, _split_list).                                       *)
Exported(g) ==
  [kind \in FileKinds |->
     SetToSeq(IF kind = "relation" THEN {RelationRow(g, e) : e \in g.edges}
              ELSE {NodeRow(n) : n \in {m \in g.nodes : m.kind = kind}})]

(* What the queries of one row do when nothing comes between them.         *)
Stored(result, row) ==
  LET g == result.graph
      kept == IF \E n \in g.nodes : Meets(n, row) THEN Updated(g, row)
              ELSE Inserted(g, row)
      edges == IF row.kind = "relation" THEN RelationEdges(g, row)
               ELSE IF row.kind = "project" THEN {} ELSE ParentEdges(kept, row)
  IN IF ~result.ok THEN result
     ELSE [graph |-> Joined(IF row.kind = "relation" THEN g ELSE kept, edges),
           ok |-> row.kind = "project" \/ edges # {}]

(* import_catalog_csv_bundle, likewise.                                    *)
StoredRows(g, rows) == FoldLeft(Stored, [graph |-> g, ok |-> TRUE], CommandsOf(rows))
Imported(g, bundle) ==
  IF Accepted(g, bundle) THEN StoredRows(g, InOrder(bundle)) ELSE [graph |-> g, ok |-> FALSE]
-----------------------------------------------------------------------------
(* The clients.                                                            *)
Busy(c) == clients[c].phase \notin {"idle", "answered", "refused", "failed"}
Todo(c) == Head(clients[c].todo)

(* Where a row begins.                                                     *)
FirstPhase(row) ==
  IF row.kind = "relation" THEN "relate"
  ELSE IF row.kind = "project" THEN "find" ELSE "parent"

(* Mutant: a row that cannot be written is passed over.                    *)
Refused_Skipped(client) ==
  LET rest == Tail(client.todo)
  IN [client EXCEPT !.todo = rest,
        !.phase = IF rest = <<>> THEN "answered" ELSE FirstPhase(Head(rest))]

(* A MemoryServiceError, or a command that cannot be built: the answer is  *)
(* the error, and what was written stays.                                  *)
Refused(client) == [client EXCEPT !.phase = "refused"]

RowDone(client) ==
  LET rest == Tail(client.todo)
  IN [client EXCEPT !.todo = rest,
        !.phase = IF rest = <<>> THEN "answered" ELSE FirstPhase(Head(rest))]

(* A change by c: the others are no longer alone.                          *)
ClientStep(c, client) ==
  clients' = [x \in CatalogClients |-> IF x = c THEN client ELSE clients[x]]
ChangeBy(c, client, g) ==
  /\ graph' = g
  /\ clients' = [x \in CatalogClients |->
       IF x = c THEN client ELSE [clients[x] EXCEPT !.alone = FALSE]]

BeginRows(c, rows, import) ==
  [NoClient EXCEPT !.rows = rows, !.todo = rows, !.import = import,
     !.alone = \A x \in CatalogClients \ {c} : ~Busy(x),
     !.phase = IF rows = <<>> THEN "answered" ELSE FirstPhase(Head(rows))]

(* create_project, update_category, create_relation...                     *)
StartCommand(c, row) ==
  /\ ~Busy(c) /\ jobs < MaxJobs
  /\ jobs' = jobs + 1
  /\ ClientStep(c, BeginRows(c, <<row>>, FALSE))
  /\ UNCHANGED graph

(* import_catalog_csv_bundle: the lists are read, the bundle is checked.   *)
StartImport(c, bundle) ==
  /\ ~Busy(c) /\ jobs < MaxJobs
  /\ jobs' = jobs + 1
  /\ LET begun == BeginRows(c, CommandsOf(InOrder(bundle)), TRUE)
     IN ClientStep(c, IF Accepted(graph, bundle) THEN begun ELSE Refused(begun))
  /\ UNCHANGED graph

FindParent(c) ==
  /\ clients[c].phase = "parent"
  /\ ClientStep(c, IF Called(graph, "project", Todo(c).scope) = {}
                   THEN Refused(clients[c])
                   ELSE [clients[c] EXCEPT !.phase = "find"])
  /\ UNCHANGED <<graph, jobs>>

FindNode(c) ==
  /\ clients[c].phase = "find"
  /\ ClientStep(c, [clients[c] EXCEPT !.phase =
       IF \E n \in graph.nodes : Meets(n, Todo(c)) THEN "update" ELSE "merge"])
  /\ UNCHANGED <<graph, jobs>>

AfterNode(c) ==
  IF Todo(c).kind = "project" THEN RowDone(clients[c])
  ELSE [clients[c] EXCEPT !.phase = "link"]

UpdateNode(c) ==
  /\ clients[c].phase = "update"
  /\ IF \E n \in graph.nodes : Meets(n, Todo(c))
     THEN ChangeBy(c, AfterNode(c), Updated(graph, Todo(c)))
     ELSE ClientStep(c, Refused(clients[c])) /\ UNCHANGED graph
  /\ UNCHANGED jobs

(* MERGE without a constraint: it finds nothing, and another client may    *)
(* create the name before it does.                                         *)
MergeNode(c) ==
  /\ clients[c].phase = "merge"
  /\ IF SameName(graph, Todo(c)) # {}
     THEN ChangeBy(c, AfterNode(c), Overwritten(graph, Todo(c)))
     ELSE ClientStep(c, [clients[c] EXCEPT !.phase = "insert"]) /\ UNCHANGED graph
  /\ UNCHANGED jobs

InsertNode(c) ==
  /\ clients[c].phase = "insert" /\ FreeKeys(graph) # {}
  /\ ChangeBy(c, AfterNode(c), Inserted(graph, Todo(c)))
  /\ UNCHANGED jobs

LinkParent(c) ==
  /\ clients[c].phase = "link"
  /\ LET edges == ParentEdges(graph, Todo(c))
     IN IF edges # {}
        THEN ChangeBy(c, RowDone(clients[c]), Joined(graph, edges))
        ELSE ClientStep(c, Refused(clients[c])) /\ UNCHANGED graph
  /\ UNCHANGED jobs

(* create_catalog_relation, whose type is only looked at here.             *)
RelateNodes(c) ==
  /\ clients[c].phase = "relate"
  /\ LET edges == RelationEdges(graph, Todo(c))
     IN IF Todo(c).type \in Relationships /\ edges # {}
        THEN ChangeBy(c, RowDone(clients[c]), Joined(graph, edges))
        ELSE ClientStep(c, Refused(clients[c])) /\ UNCHANGED graph
  /\ UNCHANGED jobs

(* The driver raises.                                                      *)
CatalogFails(c) ==
  /\ Busy(c)
  /\ ClientStep(c, [clients[c] EXCEPT !.phase = "failed"])
  /\ UNCHANGED <<graph, jobs>>

(* delete_catalog_relation.                                                *)
UnlinkNodes(c, row) ==
  /\ ~Busy(c) /\ row.type \in Relationships
  /\ graph.edges \cap RelationEdges(graph, row) # {}
  /\ ChangeBy(c, NoClient, [graph EXCEPT !.edges = @ \ RelationEdges(graph, row)])
  /\ UNCHANGED jobs

(* delete_catalog_node: what no memory is linked to, with its edges.       *)
DeleteNodes(c, kind, ref) ==
  /\ ~Busy(c)
  /\ LET gone == {n \in Called(graph, kind, ref) : ~n.remembered}
         keys == {n.key : n \in gone}
     IN /\ gone # {}
        /\ ChangeBy(c, NoClient,
             [nodes |-> graph.nodes \ gone,
              edges |-> {e \in graph.edges : e.from \notin keys /\ e.to \notin keys}])
  /\ UNCHANGED jobs

CatalogInit ==
  /\ \E nodes \in Legacy : graph = [nodes |-> nodes, edges |-> {}]
  /\ clients = [c \in CatalogClients |-> NoClient]
  /\ jobs = 0

CatalogNext ==
  \E c \in CatalogClients :
    \/ \E row \in Commands : StartCommand(c, row)
    \/ \E bundle \in Bundles : StartImport(c, bundle)
    \/ FindParent(c) \/ FindNode(c) \/ UpdateNode(c) \/ MergeNode(c)
    \/ InsertNode(c) \/ LinkParent(c) \/ RelateNodes(c) \/ CatalogFails(c)
    \/ \E row \in Unlinked : UnlinkNodes(c, row)
    \/ \E d \in Discards : DeleteNodes(c, d.kind, d.ref)

CatalogSpec == CatalogInit /\ [][CatalogNext]_catalogVars
-----------------------------------------------------------------------------
(* An import that answered, while nobody else changed the catalog, left    *)
(* each relation of the bundle between nodes that its ends name, and its   *)
(* last node under its slug and name, linked to its parent.  The rows      *)
(* before may have been renamed by a later one (import_catalog_csv_bundle, *)
(* create_catalog_relation).                                               *)
LastOfKind(rows, i) ==
  rows[i].kind \in Kinds /\ \A j \in DOMAIN rows : j > i => rows[j].kind # rows[i].kind

NodeIsThere(g, row) ==
  \E n \in g.nodes : n.kind = row.kind /\ n.slug = row.slug /\ n.name = row.name
HangsFromParent(g, row) == row.kind # "project" => ParentEdges(g, row) \cap g.edges # {}
IsRelated(g, row) == RelationEdges(g, row) \cap g.edges # {}

ImportsAreWhole ==
  \A c \in CatalogClients :
    clients[c].phase = "answered" /\ clients[c].import /\ clients[c].alone =>
      \A i \in DOMAIN clients[c].rows :
        LET row == clients[c].rows[i]
        IN /\ row.kind = "relation" => IsRelated(graph, row)
           /\ LastOfKind(clients[c].rows, i) => NodeIsThere(graph, row) /\ HangsFromParent(graph, row)

(* A catalog in which every node still has the id of its slug, no two of a *)
(* kind share a name or a slug, and each one hangs from its parent.        *)
Derived(g) ==
  \A n \in g.nodes :
    /\ n.id = CatalogId(n.kind, n.slug, n.scope)
    /\ \A m \in g.nodes \ {n} :
         n.kind = m.kind => n.name # m.name /\ n.slug # m.slug
    /\ n.kind # "project" =>
         /\ Called(g, "project", n.scope) # {}
         /\ ParentEdges(g, NodeRow(n)) \subseteq g.edges

(* The export of such a catalog, however it came about, rebuilds it from   *)
(* nothing, changes nothing when it is imported over itself, and, after an *)
(* import that stopped at any row, completes it (export_catalog_csv_bundle, *)
(* import_catalog_csv_bundle, generate_catalog_id).  This is about nodes,  *)
(* their names and their relations; it says nothing of aliases and tags.   *)
RoundTrip ==
  Derived(graph) =>
    LET bundle == Exported(graph)
        Rebuilds(g) ==
          /\ Imported(g, bundle).ok
          /\ LET again == Exported(Imported(g, bundle).graph)
             IN \A kind \in FileKinds : ToSet(again[kind]) = ToSet(bundle[kind])
    IN /\ Imported(graph, bundle) = [graph |-> graph, ok |-> TRUE]
       /\ \A i \in 0..Len(InOrder(bundle)) :
            Rebuilds(StoredRows(EmptyGraph, SubSeq(InOrder(bundle), 1, i)).graph)
=============================================================================

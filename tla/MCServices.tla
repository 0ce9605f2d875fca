----------------------------- MODULE MCServices -----------------------------
(* Instance, for TLC, of the services that share no state with each other: *)
(* a behaviour picks the service it is about, and the others rest.         *)
EXTENDS Investigation, CircuitBreaker, AgentLoop, DailyScan, Catalog, Search, TLC

CONSTANTS a1, a2, m1

\* What runs at once: handlers of errors, agents' cycles, scans, clients.
MCActors == {a1, a2}

\* Rows of the catalog.
MCNode(kind, slug, name, scope) ==
  [kind |-> kind, slug |-> <<slug>>, name |-> <<name>>, scope |-> scope,
   id |-> CatalogId(kind, <<slug>>, scope)]
MCRelation(type, from, fromKind, to, toKind) ==
  [kind |-> "relation", type |-> type, from |-> from, fromKind |-> fromKind,
   to |-> to, toKind |-> toKind]

MCProject == MCNode("project", "a", "A", <<>>)
MCOtherName == MCNode("project", "a", "B", <<>>)
MCOtherProject == MCNode("project", "b", "B", <<>>)
MCOtherSlug == [MCProject EXCEPT !.slug = <<"b">>]
MCCategory(slug) == MCNode("category", "c", "C", <<slug>>)
MCDomain == MCNode("domain", "d", "D", MCProject.id)

(* Two bundles, the second with a relation that the vocabulary does not    *)
(* have.                                                                   *)
MCBundles ==
  {[project |-> <<MCProject>>, category |-> <<MCCategory("a")>>, domain |-> <<MCDomain>>,
    relation |-> <<MCRelation("RELATED_TO", <<"c">>, "category", <<"d">>, "domain")>>],
   [project |-> <<MCOtherProject>>, category |-> <<MCCategory("b")>>, domain |-> <<>>,
    relation |-> <<MCRelation("OWNS", <<"b">>, "project", <<"c">>, "category")>>]}

MCCommands ==
  {MCProject, MCOtherName, MCOtherSlug, MCCategory("a"), MCCategory("b"),
   MCRelation("RELATED_TO", <<"d">>, "domain", <<"a">>, "project")}
MCUnlinked == {MCRelation("HAS_CATEGORY", <<"a">>, "project", <<"c">>, "category")}
MCDiscards == {[kind |-> "project", ref |-> <<"a">>], [kind |-> "domain", ref |-> MCDomain.id]}

(* No node, or a project that a memory named.                              *)
MCLegacy ==
  {{}, {[key |-> 1, kind |-> "project", id |-> <<>>, slug |-> <<>>, name |-> <<"A">>,
         scope |-> <<>>, remembered |-> TRUE]}}

\* An effective pull request memory that changed the file, and one that did not.
MCPulls == {[files |-> {"f1"}, merged |-> 1], [files |-> {}, merged |-> 0]}

\* Two clients describe their tasks alike.
MCDescribe == [t \in MCActors |-> "d"]

\* Two repositories, the first one with more pull requests than a page holds.
MCRepos == <<"r1", "r2">>
MCPullsOf == [r1 |-> <<"p3", "p2", "p1">>, r2 |-> <<"q1">>]
MCToday == [r1 |-> 1, r2 |-> 1]

\* Three memories with one summary, linked in a row, one link to another scope.
MCRecorded == <<"a", "b", "c">>
MCSummary == [m \in {"a", "b", "c"} |-> "s"]
MCRelations == <<<<"a", "b">>, <<"c", "b">>, <<"c", "x">>>>

VARIABLE focus

serviceVars == <<incidentVars, breakerVars, agentVars, scanVars, catalogVars, searchVars>>

Rests(about, v) == focus # about => UNCHANGED v

InitAbout(about) ==
  /\ focus \in about
  /\ InvestigationInit /\ BreakerInit /\ AgentLoopInit /\ DailyScanInit
  /\ CatalogInit /\ SearchInit
  /\ focus # "scan" => merged = {}
  /\ focus # "catalog" => graph = EmptyGraph

ServicesInit ==
  InitAbout({"incident", "breaker", "agent", "scan", "catalog", "search"})

ServicesNext ==
  /\ \/ focus = "incident" /\ InvestigationNext
     \/ focus = "breaker" /\ BreakerNext
     \/ focus = "agent" /\ AgentLoopNext
     \/ focus = "scan" /\ DailyScanNext
     \/ focus = "catalog" /\ CatalogNext
     \/ focus = "search" /\ SearchNext
  /\ Rests("incident", incidentVars) /\ Rests("breaker", breakerVars)
  /\ Rests("agent", agentVars) /\ Rests("scan", scanVars)
  /\ Rests("catalog", catalogVars) /\ Rests("search", searchVars)
  /\ UNCHANGED focus

ServicesSpec == ServicesInit /\ [][ServicesNext]_<<focus, serviceVars>>

(* The searches alone, for the run that is about nothing else.             *)
SearchesInit == InitAbout({"search"})
SearchesSpec == SearchesInit /\ [][ServicesNext]_<<focus, serviceVars>>

MCSymmetry == Permutations(MCActors)
=============================================================================

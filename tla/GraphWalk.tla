------------------------------ MODULE GraphWalk ------------------------------
(***************************************************************************)
(* Walking the ontology graph and checking its structure (ontology,        *)
(* graph.py; graph, types.py, queries.py, integrity.py), as functions of   *)
(* the rows of the relationships table.  A row is one revision of an edge: *)
(* [id, source, target, type, weight, from, to], its weight in tenths, to  *)
(* NoEnd while it is current.  Labels, slugs, rationales and the order of  *)
(* the answers are left out.                                               *)
(***************************************************************************)
EXTENDS Naturals, Sequences, FiniteSets, FiniteSetsExt, SequencesExt, Functions

CONSTANTS
    TypeOf          \* the entity type of each node

Node == DOMAIN TypeOf
NoEnd == 0          \* valid_to IS NULL
Now == 0            \* no as_of

-----------------------------------------------------------------------------
(* The ontology. *)

AllowedEdges ==
    [influences |-> {<<"process", "process">>},
     creates |-> {<<"process", "bottleneck">>},
     requires |-> {<<"bottleneck", "capability">>, <<"process", "capability">>},
     expressed_by |-> {<<"capability", "asset">>},
     affects |-> {"event"} \X {"process", "asset", "bottleneck", "capability"},
     supports |-> {<<"claim", "event">>, <<"event", "process">>, <<"event", "bottleneck">>, <<"claim", "process">>},
     contradicts |-> {<<"claim", "event">>, <<"event", "process">>, <<"event", "event">>, <<"claim", "process">>},
     supersedes |-> {<<t, t>> : t \in {"event", "process", "bottleneck", "capability"}},
     derived_from |-> {<<"claim", "document">>, <<"event", "claim">>, <<"process", "event">>}]

EdgeIsLegal(source, type, target) == <<TypeOf[source], TypeOf[target]>> \in AllowedEdges[type]

DiscoveryEdges == {"influences", "creates", "requires", "expressed_by"}

-----------------------------------------------------------------------------
(* The validity window, and the arcs a traversal may take. *)

\* _temporal_sql
ValidAt(row, asOf) ==
    IF asOf = Now THEN row.to = NoEnd
    ELSE row.from <= asOf /\ (row.to = NoEnd \/ row.to > asOf)

Current(rows) == {r \in rows : ValidAt(r, Now)}

\* A TraversalSpec: the empty set of types or targets means any.
Traversal(hops, direction, types, targets, limit) ==
    [hops |-> hops, direction |-> direction, types |-> types, targets |-> targets, limit |-> limit]

\* Mutant: the edges of a walk into the past are those of today.
ArcsOfToday(rows, spec, asOf) ==
    LET walked == {r \in Current(rows) : spec.types = {} \/ r.type \in spec.types}
    IN (IF spec.direction = "upstream" THEN {} ELSE {[id |-> r.id, from |-> r.source, to |-> r.target] : r \in walked})
       \cup (IF spec.direction = "downstream" THEN {}
             ELSE {[id |-> r.id, from |-> r.target, to |-> r.source] : r \in walked})

Arcs(rows, spec, asOf) ==
    LET walked == {r \in rows : ValidAt(r, asOf) /\ (spec.types = {} \/ r.type \in spec.types)}
    IN (IF spec.direction = "upstream" THEN {} ELSE {[id |-> r.id, from |-> r.source, to |-> r.target] : r \in walked})
       \cup (IF spec.direction = "downstream" THEN {}
             ELSE {[id |-> r.id, from |-> r.target, to |-> r.source] : r \in walked})

-----------------------------------------------------------------------------
(* traverse: the recursive query, its cut, and the answer made of both. *)

First(arc) == [path |-> <<arc.from, arc.to>>, edges |-> <<arc.id>>]
Further(route, arc) == [path |-> Append(route.path, arc.to), edges |-> Append(route.edges, arc.id)]
Depth(route) == Len(route.edges)

Walk(arcs, seeds, hops) ==
    LET level[n \in 1..hops] ==
            IF n = 1 THEN {First(a) : a \in {b \in arcs : b.from \in seeds}}
            ELSE {Further(s[1], s[2]) : s \in {t \in level[n - 1] \X arcs :
                      t[2].from = Last(t[1].path) /\ ~Contains(t[1].path, t[2].to)}}
    IN UNION Range(level)

\* ORDER BY depth LIMIT limit: which of the routes as long as the last one
\* kept are kept with it is the database's choice.
Cuts(walk, limit) ==
    LET Within(n) == {w \in walk : Depth(w) <= n}
        depths == {0} \cup {Depth(w) : w \in walk}
        whole == Max({n \in depths : Cardinality(Within(n)) <= limit})
        next == {w \in walk : \A v \in walk : Depth(v) > whole => Depth(w) <= Depth(v)} \ Within(whole)
    IN IF Within(whole) = walk THEN {walk}
       ELSE {Within(whole) \cup some : some \in kSubset(limit - Cardinality(Within(whole)), next)}

Routes(rows, seeds, spec, asOf) == Cuts(Walk(Arcs(rows, spec, asOf), seeds, spec.hops), spec.limit)

\* _edges_by_id: read after the walk, by the same window.
EdgesById(rows, ids, asOf) == {r \in rows : r.id \in ids /\ ValidAt(r, asOf)}
EdgeIds(cut) == UNION {Range(w.edges) : w \in cut}

\* A GraphEdge says nothing of its revision.
GraphEdge(row) == [source |-> row.source, target |-> row.target, type |-> row.type, weight |-> row.weight]

\* The target types are looked at after the cut; a route of which an edge is
\* no longer found is dropped.
Told(cut, found, spec) ==
    {[nodes |-> w.path, edges |-> [n \in DOMAIN w.edges |-> GraphEdge(CHOOSE r \in found : r.id = w.edges[n])]] :
        w \in {v \in cut : /\ spec.targets = {} \/ TypeOf[Last(v.path)] \in spec.targets
                           /\ Range(v.edges) \subseteq {r.id : r \in found}}}

Answers(rows, seeds, spec, asOf) ==
    {Told(cut, EdgesById(rows, EdgeIds(cut), asOf), spec) : cut \in Routes(rows, seeds, spec, asOf)}

Start(path) == path.nodes[1]
End(path) == Last(path.nodes)

-----------------------------------------------------------------------------
(* The questions asked through a traversal. *)

AssetsWithinHops(hops, limit) == Traversal(hops, "downstream", DiscoveryEdges, {"asset"}, limit)
DiscoveryChain(hops, limit) == Traversal(hops, "upstream", DiscoveryEdges, {"process"}, limit)

\* AssetReach, one for each asset.
Reaches(paths) ==
    {[asset |-> a,
      hops |-> Min({Len(p.edges) : p \in {q \in paths : End(q) = a}}),
      sources |-> {Start(p) : p \in {q \in paths : End(q) = a}}] : a \in {End(p) : p \in paths}}

\* confluence: of each Process a shortest path.
Confluence(paths) ==
    {[process |-> o, depth |-> Min({Len(p.edges) : p \in {q \in paths : End(q) = o}})] :
        o \in {End(p) : p \in paths}}

\* The search of the monitoring router: Process, Bottleneck, Capability.
TwoHops(rows, asOf) ==
    {<<e[1].source, e[2].target>> : e \in {f \in rows \X rows :
        /\ f[1].type = "creates" /\ f[2].type = "requires" /\ f[1].target = f[2].source
        /\ ValidAt(f[1], asOf) /\ ValidAt(f[2], asOf)}}
ConfluenceHits(rows, wanted, all, asOf) ==
    LET Reaching(c) == {p \in wanted : <<p, c>> \in TwoHops(rows, asOf)}
    IN {[capability |-> c, processes |-> Reaching(c)] :
            c \in {d \in Node : Reaching(d) # {} /\ (all => Reaching(d) = wanted)}}

\* subgraph: the seeds, and what the paths around them pass.
Subgraph(paths, seeds) ==
    [nodes |-> seeds \cup UNION {Range(p.nodes) : p \in paths},
     edges |-> {<<e.source, e.target, e.type>> : e \in UNION {Range(p.edges) : p \in paths}}]

Neighbors(rows, node, direction, types) ==
    {r \in Current(rows) :
        /\ types = {} \/ r.type \in types
        /\ \/ direction # "upstream" /\ r.source = node
           \/ direction # "downstream" /\ r.target = node}

-----------------------------------------------------------------------------
(* GraphIntegrity. *)

IllegalEdges(rows) == {r.id : r \in {e \in Current(rows) : ~EdgeIsLegal(e.source, e.type, e.target)}}

Influences(rows) ==
    {[id |-> r.id, from |-> r.source, to |-> r.target] : r \in {e \in Current(rows) : e.type = "influences"}}

\* A route that may come back to where it began, and to nowhere else it was.
Loops(arcs, hops) ==
    LET level[n \in 1..hops] ==
            IF n = 1 THEN {First(a) : a \in arcs}
            ELSE {Further(s[1], s[2]) : s \in {t \in level[n - 1] \X arcs :
                      t[2].from = Last(t[1].path) /\ ~Contains(Tail(t[1].path), t[2].to)}}
    IN {w \in UNION Range(level) : Head(w.path) = Last(w.path)}

CausalCycles(rows, hops) == {w.path : w \in Loops(Influences(rows), hops)}

WouldCreateCycle(rows, source, target, hops) ==
    source = target \/ \E w \in Walk(Influences(rows), {target}, hops) : Last(w.path) = source

NodesWithoutEntity(nodes, entities) == nodes \ entities
Disconnected(rows, nodes) ==
    {n \in nodes : /\ TypeOf[n] \in {"capability", "asset", "bottleneck"}
                   /\ \A r \in Current(rows) : n \notin {r.source, r.target}}
MultipleCurrent(rows) == {r.id : r \in {e \in Current(rows) : \E f \in Current(rows) : f # e /\ f.id = e.id}}

\* check, and assert_healthy, which lets a node without edges pass.
Report(rows, nodes, entities, hops) ==
    [illegal_edge |-> IllegalEdges(rows), causal_cycle |-> CausalCycles(rows, hops),
     node_without_entity |-> NodesWithoutEntity(nodes, entities),
     disconnected_node |-> Disconnected(rows, nodes),
     multiple_current_revisions |-> MultipleCurrent(rows)]
Healthy(report) == \A kind \in DOMAIN report : kind = "disconnected_node" \/ report[kind] = {}

-----------------------------------------------------------------------------
(* Properties, over every graph of SampleGraphs, a set of sets of triples: *)
(* there is none on which the claim fails.                                 *)

CONSTANTS SampleGraphs

RowsOf(triples) ==
    {[id |-> t, source |-> t[1], target |-> t[3], type |-> t[2], weight |-> 10, from |-> 1, to |-> NoEnd] :
        t \in triples}
Linked(triples) == {<<t[1], t[3]>> : t \in triples}
\* The ends of every chain of pairs, as long as there are nodes.
Closure(pairs) ==
    LET longer[n \in 1..Cardinality(Node)] ==
            IF n = 1 THEN pairs
            ELSE longer[n - 1] \cup
                 {<<s[1][1], s[2][2]>> : s \in {t \in longer[n - 1] \X pairs : t[1][2] = t[2][1]}}
    IN longer[Cardinality(Node)]

Everywhere(direction) == Traversal(Cardinality(Node), direction, {}, {}, 10000)
EndsFrom(rows, n, spec) == {Last(w.path) : w \in Walk(Arcs(rows, spec, Now), {n}, spec.hops)}

FindsAll(triples) ==
    LET rows == RowsOf(triples) IN
    \A n \in Node :
        /\ EndsFrom(rows, n, Everywhere("downstream")) \ {n}
               = {m \in Node : <<n, m>> \in Closure(Linked(triples))} \ {n}
        /\ \A w \in Walk(Arcs(rows, Everywhere("both"), Now), {n}, Cardinality(Node)) :
               Depth(w) > 1 => IsInjective(w.path)
        /\ \A m \in Node :
               m \in EndsFrom(rows, n, Everywhere("downstream")) <=> n \in EndsFrom(rows, m, Everywhere("upstream"))
Unfound == {g \in SampleGraphs : ~FindsAll(g)}
\* A walk that never visits a node twice still finds every node there is a
\* way to, ends on a graph with loops, and finds upstream what it finds
\* downstream (queries.py:149-253).
WalkFindsWhatIsReachable == Unfound = {}

ReadsAlike(triples) ==
    LET rows == RowsOf(triples)
        processes == {n \in Node : TypeOf[n] = "process"}
    IN /\ \A hit \in ConfluenceHits(rows, processes, FALSE, Now) :
              LET found == Confluence(UNION Answers(rows, {hit.capability}, DiscoveryChain(3, 10000), Now))
              IN \A p \in hit.processes : \E f \in found : f.process = p /\ f.depth <= 2
       /\ \A all \in BOOLEAN : \A hit \in ConfluenceHits(rows, processes, all, Now) :
              all => hit.processes = processes
       /\ \A n \in Node :
              {e.id : e \in Neighbors(rows, n, "both", {})}
                  = {e.id : e \in {r \in rows : <<r.source, r.target, r.type>> \in
                         Subgraph(UNION Answers(rows, {n}, Traversal(1, "both", {}, {}, 10000), Now), {n}).edges}}
Unlike == {g \in SampleGraphs : ~ReadsAlike(g)}
\* The confluence of the search by Processes is found by the walk back from
\* the Capability, and the neighbours are the subgraph of depth one.
QueriesAgree == Unlike = {}

Foresees(triples) ==
    LET rows == RowsOf(triples)
        processes == {n \in Node : TypeOf[n] = "process"}
        Cycles(rs) == CausalCycles(rs, 8)
    IN /\ Cycles(rows) # {} <=> \E p \in processes : <<p, p>> \in Closure({<<a.from, a.to>> : a \in Influences(rows)})
       /\ Cycles(rows) = {} => \A p \in processes : \A q \in processes :
              WouldCreateCycle(rows, p, q, 12) <=> Cycles(rows \cup RowsOf({<<p, "influences", q>>})) # {}
Unforeseen == {g \in SampleGraphs : ~Foresees(g)}
\* The audit finds a loop of influence just when there is one, and the question
\* a writer may ask before an edge foresees just what the audit would find.
CyclesAreForeseen == Unforeseen = {}
=============================================================================

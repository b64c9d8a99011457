----------------------------- MODULE GraphReads -----------------------------
(***************************************************************************)
(* Reading the graph while it is written (graph, queries.py and            *)
(* integrity.py; the writer: agents, graph_writer.py).                     *)
(*                                                                         *)
(* A revision is dated when its transaction begins and seen when it        *)
(* commits.  A traversal reads in three sessions: the routes, the edges on *)
(* them, the nodes.  Nodes are never removed, so the last says nothing of  *)
(* its own here.  How two writers of one edge race is in ProcessDiscovery: *)
(* here transactions come one after the other.                             *)
(***************************************************************************)
EXTENDS GraphWalk

CONSTANTS
    FirstEdges,         \* the rows there are at the beginning
    Asserted,           \* what agents assert: [source, type, target, weight]
    Questions,          \* what is asked: [seeds, spec]
    MaxClock, MaxWrites \* bounds

ASSUME ReadsAssumption ==
    /\ MaxClock \in Nat \ {0} /\ MaxWrites \in Nat
    /\ \A q \in Questions : q.seeds \subseteq Node /\ q.spec.hops > 0 /\ q.spec.limit > 0
    /\ IsFiniteSet(FirstEdges)
    /\ \A r \in FirstEdges :
          /\ DOMAIN r = {"id", "source", "target", "type", "weight", "from", "to"}
          /\ r.id = <<r.source, r.type, r.target>> /\ r.from = 1 /\ r.to = NoEnd
          /\ \A s \in FirstEdges : s.id = r.id => s = r

VARIABLES
    clock,
    edges,      \* the rows of relationships
    writer,     \* the open transaction of GraphWriter.relate: {} or one [row, closes]
    writes,
    reader,     \* the traversal in progress: {} or one [question, asOf, clean, cut]
    told        \* the last answer: {} or one [question, asOf, clean, cut, paths]

graphVars == <<edges, writer, writes, reader, told>>

\* The day a row of the open transaction is dated.
OpenStamps == {w.row.from : w \in writer}

GraphInit ==
    /\ edges = FirstEdges /\ writer = {} /\ writes = 0
    /\ reader = {} /\ told = {}

-----------------------------------------------------------------------------
(* GraphWriter.relate. *)

EdgeId(fact) == <<fact.source, fact.type, fact.target>>
CurrentEdge(fact) ==
    {r \in Current(edges) : r.source = fact.source /\ r.type = fact.type /\ r.target = fact.target}

Revises(fact, row) == [row |-> row, closes |-> CurrentEdge(fact)]

Admissible(fact) == EdgeIsLegal(fact.source, fact.type, fact.target) /\ fact.source # fact.target

Relate(fact) ==
    /\ writer = {} /\ writes < MaxWrites
    /\ Admissible(fact)
    /\ writer' = {Revises(fact, [id |-> EdgeId(fact), source |-> fact.source, target |-> fact.target,
                                 type |-> fact.type, weight |-> fact.weight, from |-> clock, to |-> NoEnd])}
    /\ writes' = writes + 1
    /\ UNCHANGED <<clock, edges, reader, told>>

Closed(row, day) == [row EXCEPT !.to = day]
Replaced(rows, closes, day) == {IF r \in closes THEN Closed(r, day) ELSE r : r \in rows}
Committed(w) == Replaced(edges, w.closes, w.row.from) \cup {w.row}
CommitEdge ==
    /\ \E w \in writer : edges' = Committed(w)
    /\ writer' = {}
    /\ UNCHANGED <<clock, writes, reader, told>>

AbortEdge ==
    /\ writer # {} /\ writer' = {}
    /\ UNCHANGED <<clock, edges, writes, reader, told>>

-----------------------------------------------------------------------------
(* GraphQueries.traverse: the routes, then the edges. *)

\* A moment has passed, and nothing dated at or before it is still to come.
Settled(asOf, stamps) == asOf # Now /\ asOf < clock /\ \A s \in stamps : s > asOf

ReadRoutes(question, asOf) ==
    /\ reader = {}
    /\ \E cut \in Routes(edges, question.seeds, question.spec, asOf) :
           reader' = {[question |-> question, asOf |-> asOf, cut |-> cut,
                       clean |-> Settled(asOf, OpenStamps)]}
    /\ told' = {}
    /\ UNCHANGED <<clock, edges, writer, writes>>

Answer(r, paths) == [question |-> r.question, asOf |-> r.asOf, clean |-> r.clean, cut |-> r.cut, paths |-> paths]

ReadEdges ==
    /\ \E r \in reader :
           told' = {Answer(r, Told(r.cut, EdgesById(edges, EdgeIds(r.cut), r.asOf), r.question.spec))}
    /\ reader' = {}
    /\ UNCHANGED <<clock, edges, writer, writes>>

GraphStep ==
    \/ \E fact \in Asserted : Relate(fact)
    \/ CommitEdge \/ AbortEdge
    \/ \E question \in Questions : \E asOf \in {Now} \cup 1..clock : ReadRoutes(question, asOf)
    \/ ReadEdges

-----------------------------------------------------------------------------
(* Properties. *)

GraphTypeOK ==
    /\ clock \in 1..MaxClock /\ writes \in 0..MaxWrites
    /\ \A r \in edges : {r.source, r.target} \subseteq Node /\ r.from \in 1..clock /\ r.to \in {NoEnd} \cup r.from..clock
    /\ Cardinality(writer) <= 1 /\ Cardinality(reader) <= 1 /\ Cardinality(told) <= 1

\* What was answered about a settled moment is an answer still, however the
\* graph was revised since (queries.py:12-15).
PastAnswersStand ==
    \A t \in told : t.clean => t.paths \in Answers(edges, t.question.seeds, t.question.spec, t.asOf)

\* No route is lost between the queries, though edges are revised meanwhile:
\* the guard of queries.py:250-252 has nothing to drop, and each edge of a path
\* joins the nodes on both sides of it.
NothingIsDropped ==
    \A t \in told :
        /\ \A w \in t.cut : t.question.spec.targets = {} => \E p \in t.paths : p.nodes = w.path
        /\ \A p \in t.paths : \A n \in DOMAIN p.edges :
               {p.edges[n].source, p.edges[n].target} = {p.nodes[n], p.nodes[n + 1]}

\* An Asset in reach is missing from the answer only if the limit cut the walk,
\* which counts the routes to every other node too.
MissingAssetsCostTheLimit ==
    \A t \in told :
        t.clean /\ t.question.spec.targets = {"asset"} =>
            \/ Cardinality(t.cut) = t.question.spec.limit
            \/ {r.asset : r \in Reaches(t.paths)}
                   = {n \in Node : /\ TypeOf[n] = "asset"
                                   /\ \E s \in t.question.seeds :
                                          n \in {Last(w.path) : w \in Walk(Arcs(edges, t.question.spec, t.asOf), {s},
                                                                          t.question.spec.hops)}}

\* What the writer lets in, the audit never blames for more than a loop of
\* influence or a node without edges (integrity.py:40-48).
AuditFindsOnlyLoops ==
    LET report == Report(edges, Node, Node, 8)
    IN /\ report.illegal_edge = {} /\ report.multiple_current_revisions = {}
       /\ Healthy(report) <=> report.causal_cycle = {}

(* The graph is walked whole and at the moment asked for: what is reachable is
   found, the queries that ask alike answer alike, answers about a settled moment
   stand, nothing is lost between the queries but to the limit, and the audit of
   what the writer let in blames only loops of influence. *)
GraphIsWalkedWhole ==
    /\ GraphTypeOK
    /\ WalkFindsWhatIsReachable
    /\ QueriesAgree
    /\ CyclesAreForeseen
    /\ PastAnswersStand
    /\ NothingIsDropped
    /\ MissingAssetsCostTheLimit
    /\ AuditFindsOnlyLoops
=============================================================================

--------------------------- MODULE RequirementTree ---------------------------
(***************************************************************************)
(* The requirement tree of a Bottleneck (ontology, process_layer.py; how   *)
(* it is stored and rebuilt: agents, capability_persistence.py).  A leaf   *)
(* names a reference, a group joins its children by "and" or "or"; a       *)
(* weight is a number of tenths.  Labels and rationales are left out.      *)
(***************************************************************************)
EXTENDS Naturals, Sequences, FiniteSets, FiniteSetsExt, SequencesExt

CONSTANTS
    Ref,            \* the references of a proposal
    Capability,     \* the Capabilities they may stand for
    SampleWeights   \* bound: the weights tried

Leaf(ref, necessity, weight) ==
    [kind |-> "capability", capability |-> ref, operator |-> "none", children |-> <<>>,
     necessity |-> necessity, weight |-> weight]
Group(operator, children, necessity, weight) ==
    [kind |-> "group", capability |-> "none", operator |-> operator, children |-> children,
     necessity |-> necessity, weight |-> weight]

RECURSIVE IterLeaves(_)
IterLeaves(node) ==
    IF node.kind = "capability" THEN {node.capability}
    ELSE UNION {IterLeaves(node.children[n]) : n \in DOMAIN node.children}

Required(node) == {n \in DOMAIN node.children : node.children[n].necessity = "required"}

\* An optional child never blocks; a group of optional children is satisfied.
RECURSIVE Satisfied(_, _)
Satisfied(node, available) ==
    IF node.kind = "capability" THEN node.capability \in available
    ELSE \/ Required(node) = {}
         \/ node.operator = "and" /\ \A n \in Required(node) : Satisfied(node.children[n], available)
         \/ node.operator = "or" /\ \E n \in Required(node) : Satisfied(node.children[n], available)

\* A whole that every total of the sample weights divides, twice over.
Whole == 144

Parts(node) == MapThenSumSet(LAMBDA n : node.children[n].weight, DOMAIN node.children)

RECURSIVE Coverage(_, _)
Coverage(node, available) ==
    IF node.kind = "capability" THEN (IF node.capability \in available THEN Whole ELSE 0)
    ELSE LET Score(n) == Coverage(node.children[n], available)
             all == DOMAIN node.children
         IN IF Parts(node) = 0 THEN 0
            ELSE IF node.operator = "and"
                 THEN MapThenSumSet(LAMBDA n : node.children[n].weight * Score(n), all) \div Parts(node)
                 ELSE Max({Score(n) : n \in all})

-----------------------------------------------------------------------------
(* The rows of requirement_nodes: one for each node, which names its       *)
(* parent and its place; place names the row, the root's is empty.         *)

RowOf(node, place, stands) ==
    [id |-> place, kind |-> node.kind, operator |-> node.operator, necessity |-> node.necessity,
     weight |-> node.weight,
     capability |-> IF node.kind = "capability" THEN stands[node.capability] ELSE "none"]

RECURSIVE WriteNode(_, _, _)
WriteNode(node, place, stands) ==
    {RowOf(node, place, stands)}
        \cup UNION {WriteNode(node.children[n], Append(place, n), stands) : n \in DOMAIN node.children}

ByParent(rows, row) == {r \in rows : r.id # <<>> /\ Front(r.id) = row.id}

RECURSIVE Rebuild(_, _)
Rebuild(row, rows) ==
    IF row.kind = "capability" THEN Leaf(row.capability, row.necessity, row.weight)
    ELSE LET children == ByParent(rows, row)
             At(n) == CHOOSE r \in children : Cardinality({s \in children : Last(s.id) < Last(r.id)}) = n - 1
         IN Group(row.operator, [n \in 1..Cardinality(children) |-> Rebuild(At(n), rows)],
                  row.necessity, row.weight)

LoadRequirement(rows) == Rebuild(CHOOSE r \in rows : r.id = <<>>, rows)

-----------------------------------------------------------------------------
(* Properties, over trees of two levels. *)

Necessities == {"required", "optional"}
Leaves(weights) == {Leaf(r, n, w) : r \in Ref, n \in Necessities, w \in weights}
Joined(nodes, necessity, weight) ==
    {Group(o, c, necessity, weight) : o \in {"and", "or"}, c \in {<<n>> : n \in nodes} \cup (nodes \X nodes)}
SampleTrees ==
    Joined(Leaves(SampleWeights), "required", 1)
        \cup {Group(o, <<g, l>>, "required", 1) :
                  o \in {"and", "or"}, l \in Leaves({1}),
                  g \in UNION {Joined(Leaves({1}), n, w) : n \in Necessities, w \in SampleWeights}}

Strict(node) ==
    /\ Required(node) = DOMAIN node.children
    /\ \A n \in DOMAIN node.children :
           /\ node.children[n].weight > 0
           /\ Required(node.children[n]) = DOMAIN node.children[n].children
           /\ \A m \in DOMAIN node.children[n].children : node.children[n].children[m].weight > 0

Fits(tree) ==
    \A have \in SUBSET Ref :
        /\ Coverage(tree, have) \in 0..Whole
        /\ \A more \in Ref : /\ Coverage(tree, have) <= Coverage(tree, have \cup {more})
                             /\ Satisfied(tree, have) => Satisfied(tree, have \cup {more})
        /\ Strict(tree) => (Coverage(tree, have) = Whole <=> Satisfied(tree, have))
Misfits == {t \in SampleTrees : ~Fits(t)}
\* Coverage stays within the whole and neither answer is lost by having more;
\* where nothing is optional or weightless the two agree (process_layer.py:223-247).
CoverageFollowsSatisfaction == Misfits = {}

AnswersAlike(tree) ==
    \A stands \in [Ref -> Capability] :
        LET stored == LoadRequirement(WriteNode(tree, <<>>, stands))
        IN /\ IterLeaves(stored) = {stands[r] : r \in IterLeaves(tree)}
           /\ \A have \in SUBSET Capability :
                 LET held == {r \in Ref : stands[r] \in have}
                 IN /\ Satisfied(stored, have) <=> Satisfied(tree, held)
                    /\ Coverage(stored, have) = Coverage(tree, held)
Changed == {t \in SampleTrees : ~AnswersAlike(t)}
\* The tree rebuilt from its rows answers as the tree the agent proposed did,
\* also where two references turned out to be one Capability
\* (capability_persistence.py:400-436).
StoredTreeAnswersAlike == Changed = {}
=============================================================================

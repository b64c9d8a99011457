------------------------------ MODULE MCReads ------------------------------
(***************************************************************************)
(* The three readers on one clock: a chain from a Process to an Asset,     *)
(* what may be asserted about it, what agents may record of a Process, and *)
(* what two requests do to a watchlist.  Walks, feeds and requests have    *)
(* nothing in common but the rows they read: they are taken apart.  One    *)
(* user acts for an organization, in both requests, and for herself.       *)
(***************************************************************************)
EXTENDS Watchlist, TLC

MCTypeOf ==
    [n \in {"p", "q", "b", "c", "a"} |->
        CASE n \in {"p", "q"} -> "process" [] n = "b" -> "bottleneck" [] n = "c" -> "capability" [] n = "a" -> "asset"]
MCSampleGraphs ==
    SUBSET {<<"p", "influences", "q">>, <<"q", "influences", "p">>, <<"p", "creates", "b">>, <<"q", "creates", "b">>,
            <<"b", "requires", "c">>, <<"p", "requires", "c">>, <<"c", "expressed_by", "a">>}

Fact(source, type, target, weight) == [source |-> source, type |-> type, target |-> target, weight |-> weight]
MCFirstEdges ==
    {[id |-> <<t[1], t[2], t[3]>>, source |-> t[1], type |-> t[2], target |-> t[3], weight |-> 10, from |-> 1, to |-> NoEnd] :
        t \in {<<"p", "creates", "b">>, <<"b", "requires", "c">>, <<"c", "expressed_by", "a">>}}
MCAsserted ==
    {Fact("q", "creates", "b", 9), Fact("b", "requires", "c", 5), Fact("p", "influences", "q", 8),
     Fact("q", "influences", "p", 8), Fact("b", "expressed_by", "a", 9), Fact("p", "influences", "p", 9)}
MCQuestions ==
    {[seeds |-> {"p", "q"}, spec |-> AssetsWithinHops(4, 4)],
     [seeds |-> {"c"}, spec |-> Traversal(2, "both", {}, {}, 500)]}

Of(table, row) == [table |-> table, row |-> row]
State(label, observed) == [process |-> "p", label |-> label, observed |-> observed, confidence |-> 60]
MCFirstLog ==
    [process |-> {[process |-> n, status |-> "active", at |-> 1, revision |-> 1, to |-> NoEnd] : n \in {"p", "q"}},
     bottleneck |-> {[process |-> "p", binding |-> TRUE, at |-> 1, revision |-> 1, to |-> NoEnd]},
     state |-> {[process |-> "p", label |-> "early", observed |-> 1, confidence |-> 60, at |-> 1]},
     belief |-> {}, critique |-> {},
     link |-> {[process |-> "p", event |-> "e", supports |-> TRUE, at |-> 1]}]
MCChanges ==
    {Of("process", [process |-> "q", status |-> "merged"]), Of("bottleneck", [process |-> "p", binding |-> FALSE]),
     Of("state", State("late", 2)), Of("state", State("late", 1)),
     Of("belief", [process |-> "p", moved |-> -10]),
     Of("link", [process |-> "p", event |-> "f", supports |-> FALSE]),
     Of("critique", [process |-> "p", damaging |-> TRUE, open |-> TRUE])}

MCAskedFor == {"p", "missing"}
MCNotes == {{}, {"note"}}

MCSymmetry == Permutations(Call)
MCPrincipal ==
    {[user |-> "ann", organization |-> {"acme"}], [user |-> "ann", organization |-> {}]}

Walking == reader # {} \/ told # {} \/ writes > 0
Feeding == asking # {} \/ fed # {} \/ changes > 0
Watching == workspaces # {} \/ ~issuer \/ \E k \in Call : call[k] # NoCall
Apart ==
    /\ Watching => /\ ~Walking /\ ~Feeding /\ clock <= 2
                   /\ Cardinality({k \in Call : Scope(call[k]) = {{"ann"}}}) <= 1
                   /\ Cardinality({i \in items : i.workspace = {"ann"}}) <= 1
                   /\ \A k \in Call : Scope(call[k]) = {{"ann"}} => call[k].note = {}
                   /\ {"missing"} \in {call[k].node : k \in Call} => clock = 1 /\ items = {}
                   /\ clock = 2 => items # {} /\ issuer
    /\ Feeding => \/ ~Walking
                  \/ reader = {} /\ told = {} /\ writes + changes <= MaxChanges /\ clock <= 2

-----------------------------------------------------------------------------
(* What "requires" stands for in a walk is a tree, read back from its rows:  *)
(* three references that may turn out to be two Capabilities.                *)
StoredTrees == INSTANCE RequirementTree WITH
    Ref <- {"cA", "cB", "cC"}, Capability <- 1..2, SampleWeights <- {0, 2}

\* The graph and the trees behind its edges are read back whole: walks reach
\* what they promise (queries.py:92-288), and a tree rebuilt from its rows is
\* covered and satisfied as the proposed one (capability_persistence.py:400-436).
GraphIsReadWhole ==
    /\ GraphIsWalkedWhole
    /\ StoredTrees!CoverageFollowsSatisfaction
    /\ StoredTrees!StoredTreeAnswersAlike
=============================================================================

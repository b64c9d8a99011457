----------------------------- MODULE Dependence -----------------------------
(***************************************************************************)
(* Which Events of a Process rest on the same observation, and how many    *)
(* sources are left when those that do are counted once (agents,           *)
(* dependence.py).  A dependence is a pair of Events, the source first.    *)
(* Titles, rationales and confidences are left out.                        *)
(***************************************************************************)
EXTENDS Naturals, FiniteSets, FiniteSetsExt, SequencesExt

CONSTANTS
    Documents(_),   \* the documents behind an Event
    Publishers(_),  \* who published them
    Sources(_)      \* the independent_source_count of an Event

Ends(pair) == {pair[1], pair[2]}

\* The pairs of items, a sequence, the earlier one first.
Pairs(items) == {<<items[p[1]], items[p[2]]>> :
                    p \in {q \in (1..Len(items)) \X (1..Len(items)) : q[1] < q[2]}}

SharesDocument(a, b) == Documents(a) \cap Documents(b) # {}
SharesPublisher(a, b) == Publishers(a) \cap Publishers(b) # {}

\* structural_dependencies: what can be read off the rows.
Structural(items) ==
    {p \in Pairs(items) : SharesDocument(p[1], p[2]) \/ SharesPublisher(p[1], p[2])}

\* undecided_pairs: what is left for an agent.
Undecided(items, known) ==
    {p \in Pairs(items) : \A k \in known : Ends(k) # Ends(p)}

-----------------------------------------------------------------------------
(* effective_sources joins the trees of a union-find, one dependence after  *)
(* another.  root maps an Event to the root of its tree: what find returns, *)
(* without the paths that it halves.                                        *)

\* Mutant: only the Event itself is moved, not the tree it is the root of.
JoinsOne(root, pair) ==
    IF Ends(pair) \subseteq DOMAIN root
    THEN [root EXCEPT ![pair[2]] = root[pair[1]]]
    ELSE root

\* A row of an Event that is no longer an item is passed over.
Join(root, pair) ==
    IF Ends(pair) \subseteq DOMAIN root
    THEN [x \in DOMAIN root |->
             IF root[x] = root[pair[2]] THEN root[pair[1]] ELSE root[x]]
    ELSE root

Roots(items, rows) == FoldLeft(Join, [x \in items |-> x], rows)

MaxSources(group) == Max({Sources(x) : x \in group})

\* The groups, and for each the most sources one of its Events has.
Groups(items, rows) ==
    LET root == Roots(items, rows)
    IN  {{x \in items : root[x] = r} : r \in {root[x] : x \in items}}
EffectiveSources(items, rows) == MapThenSumSet(MaxSources, Groups(items, rows))

NaiveSources(items) == MapThenSumSet(Sources, items)

-----------------------------------------------------------------------------
(* The reference: connected components.                                     *)

Closed(group, rows) ==
    \A p \in rows : p[1] \in group <=> p[2] \in group

Components(items, rows) ==
    LET inner  == {p \in rows : Ends(p) \subseteq items}
        closed == {g \in SUBSET items : g # {} /\ Closed(g, inner)}
    IN  {g \in closed : \A h \in closed : h \subseteq g => h = g}
=============================================================================

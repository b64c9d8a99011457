------------------------- MODULE IndependentSources -------------------------
(***************************************************************************)
(* What assess_independence promises its callers, with none of its         *)
(* grouping: one decision, which picks one document per source.            *)
(***************************************************************************)
EXTENDS SourceSets

VARIABLES
    docs,      \* the documents behind a cluster
    sources,   \* the documents that count, once decided
    decided

Init == docs \in SUBSET Doc /\ sources = {} /\ decided = FALSE

Decide ==
    /\ ~decided
    /\ decided' = TRUE
    /\ sources' \in SUBSET docs
    /\ Represents(sources', docs)
    /\ UNCHANGED docs

Spec == Init /\ [][Decide]_<<docs, sources, decided>>
=============================================================================

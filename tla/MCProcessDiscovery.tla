------------------------- MODULE MCProcessDiscovery -------------------------
(***************************************************************************)
(* Two events about one development, two workers, room for two Processes   *)
(* about it (three slugs).                                                 *)
(***************************************************************************)
EXTENDS ProcessDiscovery, TLC

CONSTANTS grid

MCProposal == {<<grid, 1>>, <<grid, 2>>}
\* Two irregular things at most: a kill, an outlived lease, a refusal, a second
\* announcement, an answer that names a Process twice.
TwoIrregularities ==
    stops + outlives + refusals + releases + Cardinality(repeated) <= 2

MCSymmetry == Permutations(Event) \cup Permutations(Process) \cup Permutations(Worker)
=============================================================================

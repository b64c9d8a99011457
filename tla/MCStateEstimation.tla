------------------------- MODULE MCStateEstimation -------------------------
(***************************************************************************)
(* Two Archetypes: a sequence of three States with a shortcut back, and a  *)
(* cycle of two.  One feature.                                             *)
(***************************************************************************)
EXTENDS StateEstimation, TLC

CONSTANTS line, cycle

MCMachines ==
    (line :> Machine(<<"s1", "s2", "s3">>, {<<"s3", "s1">>}, FALSE))
    @@ (cycle :> Machine(<<"c1", "c2">>, {<<"c2", "c1">>}, TRUE))
\* One irregular thing at a time: an update, an overlap, or an earlier date.
OneIrregularity == updates + overlaps + redates <= 1

MCSymmetry == Permutations(Worker)
=============================================================================

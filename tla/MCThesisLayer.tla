--------------------------- MODULE MCThesisLayer ---------------------------
(***************************************************************************)
(* Five Events: 1 and 2 share a document, 2 and 3 a publisher, 4 speaks     *)
(* against the thesis, and 3 is expected after the calls are made.  The    *)
(* analysis takes three of the four that support it.                       *)
(***************************************************************************)
EXTENDS ThesisLayer, TLC

MCDocuments(e) == IF e \in {1, 2} THEN {1} ELSE {e}
MCPublishers(e) == IF e \in {2, 3} THEN {2} ELSE {}
MCSources(e) == IF e = 3 THEN 2 ELSE 1
MCDateOf(e) == IF e = 3 THEN 9 ELSE e
MCAgainst == {4}

\* One irregular thing at a time: overlapping critics, a State recorded under one,
\* overlapping replacements, a kill after the first effect, or an answer without
\* findings; overlaps of one stage are without passes of the other,
\* and there are three passes, two with an irregularity.
Count(b) == IF b THEN 1 ELSE 0
Irregular == late + kills + Count(doubled) + Count(emptied) + Count(raced)
OneIrregularity ==
    /\ Irregular <= 1
    /\ critiques + calls <= 3 - Irregular
    /\ late > 0 \/ raced \/ emptied => calls = 0
    /\ doubled => critiques = 0

\* An analysis shares with the other two stages the evidence alone, and the thesis stage
\* reads its rows in one step: the run takes them apart, with all Events for the analysis
\* and 1, with 3 or 4, for the others.
Analysed == analysis.items # {} \/ \E c \in Caller : batch[c].items # <<>>
Apart ==
    Analysed \/ linked \notin {{1}, {1, 3}, {1, 4}} =>
        /\ critiques = 0 /\ worlds = {} /\ cards = <<>>
        /\ \A c \in Caller : call[c].axes = {}
FewPasses == linked = {1, 4} => critiques = 0

\* No property is about three passes at once.
TwoAtWork ==
    Cardinality({w \in Worker : critic[w].step # "idle"})
        + Cardinality({c \in Caller : call[c].step # "idle"})
        + Cardinality({c \in Caller : batch[c].step # "idle"}) <= 2

MCSymmetry == Permutations(Worker) \cup Permutations(Caller) \cup Permutations(Assumption)
=============================================================================

---------------------------- MODULE MCAssetLayer ----------------------------
(***************************************************************************)
(* Two Processes and two workers.  The Capabilities cA and cB describe one *)
(* ability twice, cC another one.  "gold" is an alias of the instrument    *)
(* "Gold"; a stock may bear the name of it.                                *)
(***************************************************************************)
EXTENDS AssetLayer, TLC

MCNear == {<<"cA", "cB">>, <<"cB", "cA">>}

Bound(n) == [name |-> n, binding |-> TRUE, relief |-> TRUE]
Later(n) == [name |-> n, binding |-> FALSE, relief |-> FALSE]
MCIdentifications ==
    {[candidates |-> <<>>, index |-> 0],
     [candidates |-> <<Bound("b1")>>, index |-> 1],
     [candidates |-> <<Later("b1")>>, index |-> 0],
     [candidates |-> <<[Bound("b2") EXCEPT !.relief = FALSE]>>, index |-> 1],
     [candidates |-> <<Later("b2")>>, index |-> 1],
     [candidates |-> <<Later("b1"), Bound("b2")>>, index |-> 2]}
MCTrees == {<<"cA">>, <<"cB">>, <<"cC", "cA">>}

MCAlias == {"gold", "XAU"}
MCInstrument(alias) == "Gold"
Offer(name, ticker, class, m) == [name |-> name, ticker |-> ticker, class |-> class, material |-> m]
MCDiscoveries ==
    {<<>>,
     <<Offer("gold", "none", "commodity", TRUE)>>,
     <<Offer("spot", "XAU", "commodity", FALSE)>>,
     <<Offer("Gold", "GLD", "common_stock", TRUE), Offer("Gold", "none", "etf", TRUE)>>,
     <<Offer("lead", "none", "commodity", TRUE)>>}

\* Two passes of one stage, the second stage after the first, and one irregular thing.
Irregular == late + kills + lateSearch + lost + IF raced THEN 1 ELSE 0
OneIrregularity == Irregular <= 1
Apart == searches > 0 => passes = 1 /\ late = 0 /\ kills = 0 /\ ~raced
Settled == searches > 0 => \A w \in Worker : pass[w].step = "idle"

MCSymmetry == Permutations(Process) \cup Permutations(Worker)
=============================================================================

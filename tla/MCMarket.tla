------------------------------ MODULE MCMarket ------------------------------
(***************************************************************************)
(* Two stocks of which one splits on the second day, a currency pair, and  *)
(* a commodity nobody prices; two ingests, an export and one pass.         *)
(***************************************************************************)
EXTENDS Market

MCExposed == <<"splits">>
MCRequested == [i \in Ingester |-> IF i = "morning" THEN Asset ELSE {"splits"}]
MCClass == [a \in Asset |-> CASE a = "pair" -> "currency" [] a = "copper" -> "commodity" [] OTHER -> "stock"]
MCClose == [a \in Asset |-> [d \in Time |-> CASE a = "pair" -> 5 [] a = "splits" -> IF d = 1 THEN 8 ELSE 4
                                                 [] OTHER -> NoPrice]]
MCSplit == [a \in Asset |-> IF a = "splits" THEN 2 ELSE 0]
MCSpan == [w \in {"1m", "6m"} |-> IF w = "1m" THEN 1 ELSE 3]
MCHorizon == [h \in {"1m", "3m"} |-> IF h = "1m" THEN 1 ELSE 3]
Answer(axes, priced) == [axes |-> axes, priced |-> priced]
MCAnswers == {Answer({"moat", "growth"}, FALSE), Answer({"moat"}, FALSE), Answer({"moat", "growth"}, TRUE),
              Answer({"moat", "growth", "technical"}, FALSE)}

\* An export and a pass only read the table: they are taken one at a time, and
\* an ingest or an export that stops does so before any pass.
ReadersApart ==
    /\ Cardinality(snapshots) <= IF pass.step = "idle" THEN 1 ELSE 0
    /\ pass.step # "idle" => broken = {} /\ \A i \in Ingester : ingest[i].step # "stopped"
=============================================================================

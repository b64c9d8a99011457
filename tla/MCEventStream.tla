--------------------------- MODULE MCEventStream ---------------------------
(***************************************************************************)
(* Instances of EventStream: three transactions that may overlap, the      *)
(* first of which stages two rows, and two rows no screen listens for.      *)
(***************************************************************************)
EXTENDS EventStream

CONSTANTS r1, r2, r3, r4, r5, t1, t2, t3

MCTxnOf     == [r \in {r1, r2, r3, r4, r5} |->
                   CASE r \in {r1, r2} -> t1 [] r = r3 -> t2 [] OTHER -> t3]
MCPushed    == {r1, r2, r3}
=============================================================================

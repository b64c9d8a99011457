------------------------- MODULE MCEventResolution -------------------------
(***************************************************************************)
(* How many sources a cluster has, and what hangs on the count.            *)
(*                                                                         *)
(* The loop over documents: a wire report and its update, an outlet that   *)
(* ran a copy of it and a piece of its own, a chain of two anonymous       *)
(* copies, and an anonymous document without tokens.  Every subset is      *)
(* assessed, in every order.                                               *)
(*                                                                         *)
(* The passes over claims: three claims, from the outlet's own piece, its  *)
(* copy and the wire report.  Read first, the copied report leaves one     *)
(* source; read last, it leaves two.                                       *)
(***************************************************************************)
EXTENDS SourceIndependence, EventResolution, TLC

CONSTANTS wire, update, copy, own, anon1, anon2, empty, agency, outlet,
          c1, c2, c3, e1, e2, w1, w2

MCPublisherOf == [d \in Doc |->
    CASE d \in {wire, update} -> agency [] d \in {copy, own} -> outlet [] OTHER -> None]

Chain == {{wire, update}, {wire, copy}, {copy, anon1}, {anon1, anon2}}

MCAlike == {<<d, e>> \in Doc \X Doc : {d, e} \in Chain \/ (d = e /\ d # empty)}

MCDocOf == [c \in Claim |-> IF c = c1 THEN copy ELSE IF c = c2 THEN own ELSE wire]

\* An assessment of no documents is over when it begins: the passes take its place.
MCInit == Init /\ EventInit
MCNext ==
    \/ Next /\ UNCHANGED eventVars
    \/ docs = {} /\ EventNext /\ UNCHANGED vars
MCSpec == MCInit /\ [][MCNext]_<<vars, eventVars>>

\* Passes overlap, or a proposal uses a claim twice, while there are few claims.
FewClaimsWhenIrregular ==
    /\ overlaps + sloppy > 0 => Cardinality(arrived) <= 2
    /\ overlaps + sloppy <= 1

MCSymmetry == Permutations(Event) \cup Permutations(Worker)
=============================================================================

---------------------------- MODULE MCWorkQueue ----------------------------
(* WorkQueue for TLC: a dispatcher that enqueues live work and a reconciler *)
(* that enqueues behind it.                                                 *)
EXTENDS WorkQueue, TLC

CONSTANTS i1, i2, i3, k1, k2, w1, w2, dispatcher, reconciler

MCPriority == (dispatcher :> 50) @@ (reconciler :> 150)

MCSymmetry == Permutations(Item) \cup Permutations(Key) \cup Permutations(Worker)
=============================================================================

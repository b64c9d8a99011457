-------------------------- MODULE MCOrchestration --------------------------
(* Orchestration for TLC: event resolution, which no finder covers, feeds   *)
(* one downstream stage that a finder covers: discovery or state.           *)
EXTENDS Orchestration, Pipeline, TLC

CONSTANTS i1, i2, i3, i4, resolve, discover, state, w1, w2, dispatcher, reconciler

MCStageOf == (resolve :> "resolve_events") @@ (discover :> "discover_processes")
                 @@ (state :> "estimate_state")
MCPriority  == (dispatcher :> Live) @@ (reconciler :> Reconciled)
MCSymmetry  == Permutations(Item) \cup Permutations(Worker)

MCNext == CHOOSE k \in Key \ Root : TRUE
MCSuccessor == (resolve :> {MCNext}) @@ (MCNext :> {})
MCAsks == MCNext :> FinderAsks[MCStageOf[MCNext]]

\* A behaviour has one killed worker, killed producer or refusal; handlers may fail
\* besides.
OneFault == crashes + skips + kills <= 1

\* The instance leaves stages out and keeps who leads to whom.
ASSUME MCSuccessorFollowsPipeline ==
    \A k \in Key : MCSuccessor[k] = {s \in Key : <<MCStageOf[k], MCStageOf[s]>> \in Leads}
=============================================================================

------------------------------- MODULE Pipeline -------------------------------
(***************************************************************************)
(* The stages of the pipeline as they are declared (orchestration,         *)
(* stages.py) and as they are wired (pipeline.py): what schedules a stage, *)
(* what its handler announces, whether a finder can tell its pending work. *)
(* MCOrchestration checks its Successor relation against it.               *)
(***************************************************************************)
EXTENDS Naturals

Live == 50
Default == 100
Reconciled == 150

\* Whether a unit is one subject's; a stage that sweeps has one key.
Definition(triggeredBy, emits, priority, concurrency, bySubject) ==
    [triggered_by |-> triggeredBy, emits |-> emits, priority |-> priority,
     concurrency |-> concurrency, subject_from_payload |-> bySubject]

PIPELINE ==
    [extract_claims |-> Definition({"document.ingested"}, {"claims.extracted"}, Live, 8, TRUE),
     resolve_events |-> Definition({"claims.extracted"}, {"event.created", "event.updated", "event.propagated"}, Default, 1, FALSE),
     discover_processes |-> Definition({"event.propagated"},
                                {"process.created", "process.updated", "state.transition_candidate"}, Live, 2, TRUE),
     estimate_state |-> Definition({"process.created", "state.transition_candidate"}, {"state.recorded"}, Default, 2, TRUE),
     critique_process |-> Definition({"state.recorded"}, {"thesis.critiqued"}, Reconciled, 1, TRUE),
     map_capabilities |-> Definition({"state.recorded"}, {"bottleneck.updated", "capability.updated"}, Default, 2, TRUE),
     discover_assets |-> Definition({"capability.updated"}, {"asset.updated"}, Default, 2, TRUE)]

Stage == DOMAIN PIPELINE
StagesFor(event) == {s \in Stage : event \in PIPELINE[s].triggered_by}

\* What build_orchestrator registers.
Announces ==
    [resolve_events |-> {"event.created", "event.updated", "event.propagated"},
     discover_processes |-> {"process.created", "process.updated", "state.transition_candidate"},
     estimate_state |-> {"state.recorded"},
     critique_process |-> {"thesis.critiqued"},
     map_capabilities |-> {"bottleneck.updated", "capability.updated"},
     discover_assets |-> {"asset.updated"}]
Registered == DOMAIN Announces
Unregistered == Stage \ Registered

\* What the registered finders ask: whether what the stage reads was recorded after
\* its last effect, whether it ever ran, or whether a binding Bottleneck requires a
\* subject it has not expressed.
FinderAsks ==
    [discover_processes |-> "first",
     estimate_state |-> "newer", critique_process |-> "newer", map_capabilities |-> "newer",
     discover_assets |-> "bound"]
Finders == DOMAIN FinderAsks

\* A stage schedules another through one event, or through the stages between.
Schedules(s, t) == \E event \in PIPELINE[s].emits : t \in StagesFor(event)
Directly == {link \in Stage \X Stage : Schedules(link[1], link[2])}
\* Chains of a relation, up to twice as long; none is longer than eight.
Doubled(links) ==
    links \cup {link \in Stage \X Stage :
        \E s \in Stage : <<link[1], s>> \in links /\ <<s, link[2]>> \in links}
Leads == Doubled(Doubled(Doubled(Directly)))

-----------------------------------------------------------------------------
\* The pipeline is wired as it is declared: a handler announces what its stage
\* says it emits; no stage is left out of the chain from a document on, and none
\* schedules itself; a stage without a handler or a finder stands before the
\* first that has one, and what the critic announces holds nobody up.
ASSUME PipelineIsWired ==
    /\ \A s \in Registered : Announces[s] = PIPELINE[s].emits
    /\ \A s \in Stage \ {"extract_claims"} : <<"extract_claims", s>> \in Leads
    /\ \A s \in Stage : <<s, s>> \notin Leads
    /\ Unregistered = {"extract_claims"}
    /\ \A s \in Registered \ Finders : \A t \in Finders : <<s, t>> \in Leads /\ <<t, s>> \notin Leads
    /\ \A s \in Stage : <<"critique_process", s>> \notin Leads /\ PIPELINE[s].priority <= PIPELINE["critique_process"].priority
=============================================================================

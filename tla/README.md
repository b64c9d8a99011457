# Verification of econiq_ai

TLA+ models of econiq_ai, the TLC configurations that check them on small
instances, and TLAPS proofs that hold for every value of the constants. Paths are
relative to the repository; `O/` stands for
`services/orchestration/src/econiq_orchestration/`, `A/` for
`services/agents/src/econiq_agents/` and `P/` for `apps/api/src/econiq_api/`.

## 1. The system

econiq_ai turns documents into a graph of economic Processes. Claims are extracted
from Documents, clustered into Events, and Events that clear a gate move Processes,
whose states, critiques, bottlenecks, capabilities, assets and theses are estimated
stage by stage. Language-model agents propose; code decides what is stored. All
state is in one Postgres database. The processes that work on it are
interchangeable, share nothing in memory and may be killed at any point, and a
single logical step is usually several transactions with a model call of minutes
between them. That is where the hard behaviours are: what was read before the call
is used after it, a step may be done in part, announced twice or not at all, and
nothing but the queue keeps two workers off the same subject.

### Components

| component | state | operations | hard behaviour | correct when | status, modules |
|---|---|---|---|---|---|
| work queue, `O/queue.py` | `work_items` | enqueue (look, insert), claim with reclaim of expired leases, succeed, fail, supersede | racing inserts, leases outlived by live workers, crashes, retries | one open item per key; one worker per key within its lease; no item disappears | modelled: WorkQueue |
| outbox, dispatcher, worker, reconciler, `O/events.py`, `runner.py`, `stages.py`, `pipeline.py` | `outbox_events`, one pass in memory per process | stage and publish events, dispatch, sweep, run a handler, complete | kills between transactions, events dropped as duplicates behind a running handler | an event reaches the queue; a change left behind was raced | in part: Orchestration, Pipeline |
| event resolution, `A/event_stage.py`, `event_persistence.py`, `event_agents.py` | `events` (revisions), `event_claims`, `propagated_at` | cluster, create or extend, gate, mark, announce | overlapping passes, conflicting revisions, marks and announcements in different transactions | a claim counts once; the count is the cluster's; what clears the gate goes on | in part: EventResolution |
| source independence, `A/independence.py` | none | group documents | rows come unordered, overlap is not transitive | one representative per source | modelled: SourceIndependence |
| process discovery, `A/process_stage.py`, `process_persistence.py`, `graph_writer.py` | `processes` (revisions), journal, `edges`, `evidence_links`, `agent_runs` | discover, create, link, update | the run is logged before its effects; a retry repeats some | changes are evidenced; a broken pass is found again | modelled: ProcessDiscovery |
| state estimation, `A/state_stage.py`, `state_persistence.py`, `state_agents.py` | `process_states`, the archetype | classify, estimate, record | read, think, record; a revision copied from a stale read | the latest state is the one estimated last; moves are permitted | modelled: StateEstimation, Archetypes |
| critic and thesis, `A/critic_stage.py`, `thesis_stage.py`, their agents | `critiques`, `scorecards`, `counterfactuals` | close the previous pass, store the new one, score, explain | two transactions per pass, two stages writing one axis | what was attacked stays attacked; scores follow the critic | modelled: ThesisLayer |
| independence of theses, `A/independence_stage.py`, `dependence.py` | `evidence_dependences` | judge pairs, replace, count | overlapping replacements | sources are the connected components | modelled: ThesisLayer, Dependence |
| capabilities, `A/capability_stage.py`, `capability_persistence.py` | bottlenecks, capabilities, requirement trees, edges | identify, find or create, map, wire, assess confluence | find-or-create without a lock, kills between a tree and its edges | one node per ability; what a tree requires is in the graph | modelled: CapabilityLayer, RequirementTree |
| assets, `A/asset_stage.py`, `asset_persistence.py`, `asset_scoring_stage.py`, `asset_metrics.py` | candidates, assets, edges, exposures, scorecards | propose, resolve, link, estimate, score | the same, and finders that go by the first effect | one asset per instrument; a candidate is accounted for; a card can be replayed | in part: AssetLayer, Market, PriceSeries |
| claim extraction, `A/extraction.py`, `document_agents.py`, `persistence.py` | `claims`, `agent_runs`, version rows | classify, extract, ground, record, persist | a kill between run and claims, two checks of a quote | claims point at their quotes; a run's claims are whole | modelled: Extraction, Texts |
| ingestion, `services/ingestion` | `documents`, the object store | fetch, hash, store, announce | equal documents at once, a kill before the announcement | one document per byte string, evidence before its row | modelled: Ingestion, Texts |
| market data, `services/market` | `prices` with two clocks, snapshots, episodes | ingest, read as of a moment, export, measure outcomes | rows dated before they are committed, exports in progress | a past moment has one answer; runs end and report what they did | modelled: Market, PriceSeries |
| graph queries and integrity, `services/graph` | none | traverse, confluence, neighbours, audit | three sessions per traversal, a limit cut before the filter | what is reachable is found, and as it stood | modelled: GraphWalk, GraphReads |
| alerts and workspace, `P/alerts.py`, `routers/workspace.py` | `workspaces`, members, `watchlist_items` | derive alerts, watch, unwatch | late commits, overlapping requests | one feed per moment; answered means watched | modelled: ThesisFeed, Watchlist |
| read API, `P/discover.py`, `temporal.py`, `auth.py`, routers | none | rank, read as of a moment, let in | the same | the same | in part: ThesisFeed, Watchlist |
| live update stream, `P/routers/stream.py`, `apps/web/src/lib/live.ts` | a cursor per connection | start, poll a page, send, break, resume | commit order differs from timestamp order | a change is told once, in order, and not lost | modelled: EventStream |
| language-model service, `packages/llm` | none | ask, validate, ask again | retries that must stay bounded | attempts bounded and attributed | in part: Extraction |
| ontology, `packages/ontology` | none | state machines, requirement trees, legal edges | - | as their users need them | in part: Archetypes, RequirementTree, GraphWalk |
| data models | the tables | - | - | constraints hold | in part: in the modules that use them |
| evaluation harness, `services/eval` | none | audits, measurements | - | audits blame only faults | in part: Extraction |
| embeddings, prompts, assistant, schemas, web pages | - | - | - | - | not modelled |

Stages call each other only through the outbox and the queue, and only those of
`O/pipeline.py` at all: thesis scoring, independence, asset scoring, market ingest,
ingestion and extraction run when somebody calls them, so nothing serialises them.

## 2. Modules

| module | role |
|---|---|
| `KeyLock` | abstract: a lock per idempotency key |
| `WorkQueue` | the queue, one action per transaction; implements `KeyLock` |
| `Pipeline` | the table of stages and how they are wired |
| `Orchestration` | extends `WorkQueue`: outbox, dispatcher, handler, reconciler; implements `WorkQueue` |
| `SourceSets`, `IndependentSources`, `SourceIndependence` | when two documents are one source; abstract choice of one per source; the loop that implements it |
| `EventResolution` | extends `SourceSets`: passes, revisions, gate, announcement, discovery's finder |
| `EventStream` | the writers of the outbox, one client and its connections |
| `ProcessDiscovery` | from released events to Processes |
| `Archetypes`, `StateEstimation` | the machines; the State of one Process |
| `Dependence`, `ThesisLayer` | connected components; critic, thesis and independence stages over one Process |
| `RequirementTree`, `CapabilityLayer`, `AssetLayer` | requirement trees; bottlenecks to capabilities; capabilities to assets |
| `Texts`, `Ingestion`, `Extraction` | sections and quotes; documents; claims |
| `PriceSeries`, `Market` | metrics, outcomes and distributions; prices with two clocks and their readers |
| `GraphWalk`, `GraphReads`, `ThesisFeed`, `Watchlist` | queries as functions; traversals, feeds and requests while rows are written |
| `MC...` | instances for TLC |
| `...Proofs` | theorems about the module they are named for; `OrchestrationProofs` also about `WorkQueue`, `EventResolutionProofs` about `SourceIndependence`, `AssetLayerProofs` about `CapabilityLayer`; `DatedRowsProofs` about `EventStream` and `Market`, the two readers of rows dated before they are seen; `BoundaryProofs` about both ends of the system: `Ingestion` and `Extraction`, which take in, and `GraphReads`, `ThesisFeed` and `Watchlist`, which answer |

The composition follows the code. `Orchestration` runs every queue operation of
`WorkQueue` inside a step of the dispatcher, worker or reconciler and adds what the
caller does in the same transaction. `EventResolution` takes from `SourceSets` what
`assess_independence` may return, which is what `SourceIndependence` is shown to
implement. `AssetLayer` works on the graph `CapabilityLayer` leaves, `Extraction` on
the documents `Ingestion` announces, and the scoring passes of `Market` on what its
ingests commit, measured by `PriceSeries`. The stages from `EventResolution` to
`AssetLayer` reduce the queue to what they need of it (one item per subject, a lease
that may be outlived, attempts), because `Orchestration` has it in full; what one
stage reads of another is an environment action there (evidence that arrives, a
State that is recorded).

### WorkQueue
`rows` is the table, `calling` a producer between the SELECT and the INSERT of
enqueue, `raised` a producer whose insert met the partial unique index, `holds` and
`up` the workers. Time is two Booleans per row, the two comparisons the code makes:
due (`run_after <= now`) and expired (`claimed_at < now - lease`). `Claims` is the
whole transaction, reclaim of every expired lease included; `ClaimRaises` is the
claim whose row would become a second open one of its key and which is rolled back
and ends the worker's loop. `Completes` and `Fails` find the row by id alone, as
`_complete` and `fail` do. `Supersede` is modelled although the runner never calls
it, and belongs to `WorkQueue` only. Left out: the length of a backoff, and
`run_after` as second sort key, so rows of equal priority are taken in any order.

### Orchestration
A key's ontology state is one version number: `input` is what its stage reads,
`output` the input of its last committed effect, `stale` what its finder says. What
a finder asks differs (`Asks`, `Reports`): state, critique and capabilities compare
times of recording ("newer"), and so forget a change the handler never read;
discovery asks for any run in the log ("first"), and so never reports a key twice;
asset discovery asks for a Capability without an edge that a binding Bottleneck
requires ("bound"), which is the theorem's case only, no instance has that stage. A
change is therefore promised to be in motion where the sweep (`Swept`) or the events
(`Announced`) answer for it. Neither does for a later change of a discovered Event
when event resolution is killed before it announces it. A
handler reads (`Reads`), commits its effect (`Writes`), and completes (`Finishes`),
which stages the successors' events in the same transaction; it may be skipped,
raise, or die at each point. The dispatcher reads a batch, enqueues key by key, and
marks the batch at the end; a lost pass leaves the batch pending. Event resolution
is the root: it has no finder and finds nothing to do when run again after its
effects. The finders of a sweep are asked together; pages of one hundred events and
fifty subjects are not bounded.

### SourceIndependence
`todo` is what the loop has not reached; the next document is any of it, since
`_source_documents` has no ORDER BY. `Alike` is the given relation "shingles overlap
by the threshold": symmetric, not transitive, and not reflexive for a document
without tokens. `FirstFit`, `CountsAsCopy`, `Joins` and `Opens` are the branches of
the loop body.

### EventResolution
`Starts` is the two reads of a pass (merged: what lies between them is one more
choice of known events), `Creates` and `Reads` take the next proposal of the answer,
which is any use of the claims shown, `Extends` is the transaction that writes the
next revision or meets the primary key, `Marks` and `Holds` the gate. A proposal is
scored before it is stored; the score matters only through `major`, materiality of
8.5 or more. `Finishes` announces what was released with the completion of the item,
`Stops` loses the announcement and keeps what was stored. Discovery is `Dispatches`
(deduplicated against an open item), `Sweeps` (the finder), `Loads`, `Records` (the
run enters the log before its effects), `Completes`, `Declines`, `Retries`. Left
out: LIMIT 50, the merge window, embeddings (any existing event may be among those
shown), dead items. MCEventResolution runs the loop of `SourceIndependence` next to it.

### EventStream
A transaction's rows carry its start time and become visible when it commits.
`Connects` is `_start`, `Polls` one page of `_drain`, `Yields` one turn of the loop,
`Drops` a broken connection; `lastId` survives in the browser. The heartbeat is left
out.

### Pipeline
`PIPELINE` is the table of `O/stages.py`, `Announces`, `Finders` and `FinderAsks` what
`build_orchestrator` registers. It has no state; two assumptions that TLC evaluates
with the run `pipeline` relate them: `PipelineIsWired` (a handler announces what its
stage says it emits, every stage follows a document, none schedules itself,
`extract_claims` alone has no handler, and a stage without a finder stands before
those that have one), and `MCSuccessorFollowsPipeline` (the instance's successor
relation is the table's).

### ProcessDiscovery
An Event comes into the queue by `Enqueues`, the first announcement or the sweep,
which wants it absent from the log, or by `Reannounces`, the dispatcher's path: an Event that was
extended and released again is announced again and discovered again, logged or not. A
pass `Answers` (the run is recorded, `logged`), then takes the proposals in turn:
`Names` reads the slugs, `Creates` inserts, `LinkReads` and `Relates` revise the
edge, `Evidences` adds the link, and `UpdateReads`, `Applies` revise the Process when
a second agent finds its beliefs changed. Each is a transaction; `Stops` ends the
pass between any two, `SlugRaises`, `RelateRaises` and `UpdateRaises` are the
conflicts the unique keys report. `broken`, `outlived`, `again`, `repeated`, `refused`
and `short` are history. An answer may name a Process twice, which its schema does not
forbid (`repeated`). The agent is taken to be attentive: it proposes a new development once, and
not one it was shown as a Process.

### StateEstimation, Archetypes
`Starts` reads Process, evidence and the date `AsOf`; `ClassifyReads`, `Classifies`
write the Archetype from a copy; `Asks` reads the prior State, `Records` appends,
after reading the prior again, if the machine permits the move. `Links`, `Redates`,
`UpdateReads`, `UpdateWrites` are discovery's. `requires_review` is no column of the model: it
is set on creation and copied by each revision, so what `record_state` assigns in place is
the value already there. `Archetypes` has the five machines as
declared, the check of their construction, ordinals, and the size of a move;
`MachinesHold` says each State can be reached and terminal ones are terminal.

### ThesisLayer, Dependence
`CriticAnswers` to `CriticEnds` is the critic's pass: close the open findings, store
the new ones, record the risk. `ThesisReads` to `Annotates` is the thesis stage:
imagine counterfactuals, replace the current ones, score, explain.
`AnalysisReads` to `AnalysisEnds` is the independence stage, whose callers are in
`batch` as those of the thesis stage are in `call`. The update and the insert
of one transaction are two actions, as the update sees no row another one has not
committed. `Dependence` has the structural pairs, the union-find in the order rows
are read, and the counts, next to `Components`, the definition it is compared with.

### CapabilityLayer, RequirementTree, AssetLayer
Every look-up and write of a pass is an action. A write whose basis was
revised meanwhile (`Stands` fails) is not possible: `PassEnds` is all that is left. `Near` is which meanings
the embedding finds close. `RequirementTree` stores a tree as rows and rebuilds it;
satisfaction and coverage are compared before and after, over all trees of two
levels, in the run `reads`: a tree is what an edge `requires` stands for. `AssetLayer` resolves a proposal by reference instrument, ticker or name in
that order (`Key`).

### Ingestion, Extraction, Texts
A result of a drain is one pass through `FindsByHash`, `Puts` (twice), `Persists`,
`Publishes`; `PutFails` is a refused write, `Conflicts` the unique hash. An
extraction asks two agents in turn; `Refuses`, `Invalid` and `Attempted` are the
loop of `packages/llm`; `LooksUpVersion`, `Records`, `PersistsClaims` its
transactions. A text is a sequence of eleven kinds of character: what normalisation,
section headings and the search for a quote tell apart; those of the run have a
ligature before a quote and a doubled blank inside one. `Misdated` are the quotes the
agent dates after their document, which nothing rejects. The audits of
`eval/audit.py` are operators over the same rows.

### Market, PriceSeries
A row is (asset, day, closes, `recorded`), where `recorded` is when its ingest began.
`Fetch` and `Store` go asset by asset; a fetch sees the splits known by then.
`AsKnownAt`, `LatestKnownAt` and `History` are the three readers as they are written.
`BeginExport`, `WriteExport` are the directory and the table of a snapshot;
`ReadHistory`, `Judge`, `Annotate` the scoring pass, which goes through the assets in
the order of its query (`Exposed`). `IngestStops`, `ExportStops` and `PassStops` end each
between any two of its transactions or writes, be it killed or by an exception: what a
failing parquet write or a failing update leaves behind is what a kill leaves, and
`broken` keeps the stamps of the exports that ended so. `PriceSeries` rounds ratios to
whole percentages, which keeps their order.

### GraphWalk, GraphReads
`Walk` is the recursive query, `Cuts` every prefix by depth a LIMIT may leave, and
each further operator one query or check. In `GraphReads` a writer's transaction is
dated when it begins and seen when it commits; `ReadRoutes` and `ReadEdges` are the
sessions of a traversal.

### ThesisFeed, Watchlist
`log` holds the dated rows of six tables; `FindsProcesses` and `Feeds` are the two
halves of a request. `Generate` is the five sources of alerts, `Facts` and `Score`
the Discover ranking in hundredths. In `Watchlist` a token is rejected or its
principal finds or creates a workspace (`Finds`, `Creates`), then `LooksUp`,
`Inserts`, `UpdatesNote` or `Unwatch`.

## 3. Runs

A property of a run is a named part, or a conjunction of named parts that answer one
question; each part has its own comment in its module. Distinct states in brackets.

| run | bounds | shows |
|---|---|---|
| `queue` (762 k) | 2 rows, 2 keys, 2 producers, 2 workers, 2 attempts, 1 crash, 1 outlived lease | one open item and, within the lease, one worker per key; runs beyond the budget are each paid for by a crash or an outlived lease; a success and an exhausted item stay; refinement of `KeyLock`; every unsettled item is settled, twins excepted |
| `pipeline` (546 k) | 2 stages (event resolution and discovery), 2 rows, 1 worker, 2 attempts, 2 changes; a crash, a killed producer or a refusal, and failing handlers | a change the finder or the events answer for and that is left behind was raced; an effect not announced belongs to an item that will run again; refinement of `WorkQueue`; an event and a stale key reach the queue |
| `pipeline_covered_gap` | 4 rows, 2 workers, 2 changes, no failure at all | **fails**: an event dropped behind a running handler is a gap although the stage has a finder |
| `stream_runs` | 3 overlapping transactions, 5 rows, pages of 2, 2 breaks | told once, in order; what is missed was overtaken or split; what is ahead is told |
| `events_resolve` (986 k) | grouping: 7 documents, every subset and order. Passes: 3 claims, 2 events, 2 workers, 1 stop, 1 overlap or 1 claim used twice | grouping is sound and implements the abstract choice; a claim is evidence of one event and counts are the cluster's; a mark means the gate was cleared; a lost release was missed |
| `processes_discover` (4.6 M) | 2 events, 2 Processes, 2 workers, 2 attempts; two of kill, outlived lease, refusal, second announcement, Process named twice | a revision per journalled change, each with evidence; what counts twice as evidence, and why; a short pass is tried again; twins come of two events or an overlap |
| `states_estimate` (2.6 M) | 2 machines, 1 feature, 2 workers, 6 commits; one of update, overlap, redating | no revision undone; the latest state is the one estimated last; the Archetype stands; moves are permitted |
| `theses` (737 k) | 5 Events, 2 severities, 2 assumptions, 2 workers, 2 callers, 3 passes, one irregularity | findings stand as one set with the most severe in the lead; the risk read is the critic's last until the thesis stage scores the axis; worlds and dependences are of one pass; union-find gives the components |
| `assets` (571 k) | 2 Processes, 2 bottleneck and 3 capability names, 2 workers, 2 passes of each stage, one irregularity | one row per identity; the graph says what the rows say; finders miss nothing but what a failure cost; a revision gives way to the next |
| `intake` (169 k) | 2 ingesters, 3 byte strings, limit 2, 2 drains, 1 kill, 1 failed write; 2 extractors, 2 extractions, 2 attempts | one document per byte string, its bytes before its row, announced once or at the cost of a kill; claims at their quotes, and where their ends are off; runs whole; audits find only part-rejected runs and misdated claims; drains and extractions end |
| `market` (278 k) | 2 ingesters, 1 exporter, 3 assets of which one splits, 3 moments; any run may be killed or raise at any step; every series of up to 5 days of 3 prices | readers agree, cards replay and snapshots answer for the past but for ingests still open; passes are accounted; metrics, outcomes and distributions are what they say; every run ends |
| `reads` (74 k) | 128 graphs of 5 nodes; 3 moments, 2 writes or changes (2 moments where both mix); 2 requests of a user with two workspaces | walks find what is reachable; requirement trees are read back as they were; answers about a settled moment stand; a feed answers for its moment; a watchlist does what it answered |

Two of everything that competes are enough for each race the code has: a race is
between two, and what it leaves behind needs one more step of one of them; where a
third row, document or claim could make a difference, there is one. Crashes, outlived
leases, kills, overlaps and refusals are bounded by one or two because each property
is conditioned on, or counts, those that happened. Where the cfg names a CONSTRAINT,
the MC module says what it leaves apart: irregular things come one or two at a time,
and readers or stages that share no written row are explored after, not among, each
other (`Settled`, `Apart`, `ReadersApart`). A constraint cuts interleavings, so a
property is not claimed for what it cuts. Symmetry is used in safety runs, and in
`reads`, whose property of steps has no fairness. Deadlock checking is off because
the bounds end every instance.

Each property has a mutant of the code, kept in the module next to the operator it
replaces under the comment "Mutant", that TLC finds it violated by.

Some claims of comments are kept next to the properties as definitions no run checks.
TLC refutes each when it is added as an INVARIANT to the run of its module, which is
how the condition in the checked property was found: `AlwaysSettled` (WorkQueue),
`NoEffectUnannounced` (Orchestration), `NoWindow` (EventStream), `ReleaseNeverGap`
(EventResolution), `NoEstimateIsMeasured` (StateEstimation), `RiskIsTheCritics`
(ThesisLayer), `UpstreamStillRequires` and `IncidentalIsNoExpression` (assets),
`RunOutlivesFailure` (Extraction).

### Fairness
Weak fairness only, for what a loop does by itself. `WorkQueue`, `Orchestration`:
`poll_forever` reads, sweeps, claims, runs and finishes in turn; a process that ended
is started again by its supervisor; time passes, so a backoff elapses and a lease
runs out. `EventStream`: `EventSource` reconnects by itself. `Extraction`: an
ingester and an extractor that are not killed go on. `Market`: an event loop does not
stop while a coroutine is ready. Nothing obliges a process to crash, a producer to
enqueue of its own accord, a transaction to commit, a new run to begin, or a handler
to succeed: a handler that always raises ends in a dead item, which counts as
settled. There is no fairness between the items of a queue, and no property that
would need it. The other modules are checked for safety alone and state none.

## 4. Proofs

For any number of rows, keys, workers, documents, claims, events, Processes, crashes
and outlived leases, from the named assumptions of the modules: `QueueAssumption`,
`OrchestrationAssumption`, `StreamAssumption`, `SourceAssumption` with
`FiniteDocAssumption`, `EventAssumption`, `IngestionAssumption` and
`ExtractionAssumption`, `StateAssumption`, `DiscoveryAssumption`,
`ThesisAssumption`, `CapabilityAssumption`, `AssetAssumption`, `MarketAssumption`,
`PriceSeriesAssumption`, `ReadsAssumption` and `FeedAssumption`. Besides the types of
the constants they say that the tables begin with finitely many rows, one of them
current for each entity, that documents and workers are finite in number where a
theorem counts them, that a distance between meanings is symmetric, and that the
computed axis is not among those the agent is asked for. Each module proves one inductive invariant, `IInv` or the
conjunction named below, which TLC was given first; its parts are named and commented
in the module, and each action preserves each part in a step or lemma of its own.

* **OrchestrationProofs**, queue. The inductive invariant is `TypeOK`, `OneOpenPerKey` and
  `SingleFlightWithinLease` together: that two workers never hold one key needs that
  a held row is running and unexpired, which in turn needs that no second row of its
  key is open. `ExtraRunsCostACrash` is not inductive: a run beyond the budget comes
  from a row that was reclaimed, and the strengthening `Charged` says which crash or
  outlived lease each such row has been charged with. The two action properties
  follow from the same invariants, and so does `ImplementsKeyLock`, with the rows that
  are running as the locks held. `OneWorkerPerKeyHolds` and `SettlementStandsHolds`
  put the parts together. Composition: `ONext` is shown to be a step of `WorkQueue` or a stutter
  (`ImplementsWorkQueue`), so the queue's theorems hold of the composition. For
  `OnlyRacedChangesAreLost` the invariant says where each running handler stands:
  what a finder no longer reports, of the keys it answers for, is not behind
  (`FinderSeesBehind`), what a handler has read is current unless raced
  (`ReadersCatchUp`), and any other key that is behind, of a root or of a handler whose
  announcements a retry repeats, is on its way (`IsOnItsWay`): about to be announced,
  announced, in the queue, or owed by a handler (`IsOwed`), whose item by
  `EffectsAreAnnounced` will run again. The theorem is for any assignment of the three
  kinds of finder to stages.
* **EventResolutionProofs**, sources. For every document set, order, assignment of
  publishers and symmetric overlap: `GroupedOnce`, `CopiesAreForeign`,
  `OutletSplitsOnlyByCopy`, `CountWithinPublishers`, and the refinement of
  `IndependentSources`. The extra conjunct is `GroupsMatch`: every document of a group
  matches its first one; the bound on the count maps each group to the publisher, or
  the document without one, that it alone leads with.
* **EventResolutionProofs**, passes. A claim is evidence of one event because a pass holds
  its claims from the read on and no other pass of the item is under way
  (`RestIsUnclustered`, `OnePass`); the stored count is that of the cluster because a
  revision is written only over the one that was read (`CountMatchesEvidence`, with
  `FiniteDocAssumption` for the cardinalities). `MarkedPassedGate` needs that what a
  pass marks is the current revision, unless an overlapping pass wrote a later one
  (`StoredIsCurrent`). For `OnlyMissedReleasesAreLost` the invariant names how far
  each release has been carried (`CarriedWithoutFinder`, `LoadsAreNotOlder`).
* **BoundaryProofs**, ingestion. An ingester has one result for each entry behind
  it, and what it works on is its next entry (`Progress`, `InHand`), so that a row's
  bytes are stored before it (`RowHasBytes`); a document is announced once because of
  all ingesters with its bytes in hand at `publish` there is one, and none has
  reported it as ingested (`Publishing`). Extraction: `Stages` says what an extractor
  at each step has recorded, `RunsAreExplained` how every run row came about; then
  the claims of a run are all or none of what was accepted. That the quotes of the
  claims are found where they are said to be is left to TLC (`QuotesAreGrounded`): it
  is a fact about searches in texts.
* **StateEstimationProofs.** `RowInv` ties each revision to one writer
  (`UpdateIsCurrent`: a copy that can still be written is of the current revision),
  `PriorInv` the prior a pass read to the latest State while passes do not overlap,
  `OrderInv` the dates of the estimates to their order, so that the State read as the
  latest is the last recorded. That there is a latest one, and that it is the last, is an
  argument by a greatest element, from the well-foundedness of the naturals.
  `StepsArePermittedHolds` has `MachinesHold` as hypothesis, a fact about the five
  machines of the code, which TLC evaluates in the run.
* **ProcessDiscoveryProofs.** `EvidenceCovers` counts the changes an event has made
  to a Process and the passes that may still make one: together they are at most the
  evidence links, as a link precedes each (workers are finite in number).
  `WrittenIsLogged` is why the finder may take a recorded run for proof. `OnePass`
  says an event whose lease was never outlived has one pass, which holds its item;
  on it rest `ProposalsAreNew` (what the pass will still create is no topic its event
  has created) and `UnseenEdge` (the edge it did not see is not there). A `Smooth`
  Event, of one announcement, no broken or outlived pass and no answer that named a Process
  twice, has one plan (`OnePlan`), which links each Process once (`LinksToCome`). That `_unique_slug` finds a slug is proved by counting: more numbers than
  Processes are tried.
* **ThesisLayerProofs.** For `CritiqueStands`: `CriticsAlone` says that without an
  overlap one critic is at work, with the run begun last, so that everything open is of
  earlier runs when it closes, and nothing is open when it stores; `AnswersPassed`
  carries the evaluator's verdict from the answer to the insert; `StatesWereRead` ties
  the State a pass has read to the latest, until one is recorded across it. For
  `ScoresFollowTheCritic`: evidence is only added, so single critics date their numbers
  in order (`RisksAreDated`); the card a thesis takes its risk from stays the latest of
  those it has read, as cards are added at the end and dates never change
  (`BasisWasLatest`, `LatestOf`); among numbers dated apart the latest is then the last.
  `ReplacedAlone` says that an update without a rival sees every current counterfactual,
  of which `WorldsAreOneSet` follows. What the independence stage counts is not proved:
  it rests on folds over rows.
* **AssetLayerProofs**, capabilities. The identities are counted together with the passes
  that looked and found none: `FewNamed`, `FewSame` and `FewTrees` say that the rows of a
  name, an ability or a Bottleneck and the passes about to add one are at most one more
  than the passes that began while another was at work, which is `FewAtWork`. A pass
  that finds none adds itself to no rows, so the bound is that of `FewAtWork`; one that
  writes only moves from one summand to the other. The four bounds are inductive
  only together with `PassesHold`, which says what a pass has in hand at each step (a
  row it revises is of the name it looked for, a Bottleneck it maps exists, the leaves
  of the tree it wires are still to do or in the graph). `Orphans` and `Unmapped` leave
  out the work in hand, so that only a kill adds to them. `RevisionPerWrite` follows
  from the numbering of rows (`Numbered`), which also shows that a free slug is found.
* **AssetLayerProofs**, assets. In the same way `FewKeyed` counts Assets and passes about
  to add one; `OneHand` gives each candidate to one pass, so that one that ends costs
  one (`CandidateIsAccounted`, `ResolvedIsExpressed`); `ExpressedWasCandidate` is why
  an unresolved Capability is not taken for done.
* **DatedRowsProofs**, the stream. Told rows are at or behind the cursor, the page is ahead
  of it, new, and the oldest of what is ahead; a transaction that is open behind the
  cursor is in `passed`. From these follow `ToldOnce`, `ToldInOrder` and that only
  overtaken or split rows are missed.
* **DatedRowsProofs**, the market. `RunStands` relates what an ingest has left, in hand and
  reported to the rows dated by it; runs begin at times of their own (`BegansDiffer`),
  so no two rows are one version of a day (`VersionsDiffer`), which is why the three
  readers agree: each chooses the newest version, and there is one. What makes a past
  moment stand is `Excused`: every run still open was noted by the reader, or began
  after its moment; a run that begins, begins later than every moment read. It is kept
  for each snapshot, for the pass and for each card, and gives that rows added since are
  later than the moment, or excepted. Every step of an ingest is shown to be of one
  kind (`Goes`), and what readers rely on is shown once for that kind. That a directory,
  once written, is not written again rests on `ExportsStand`: an export holds the stamp of an
  unwritten one.
* **BoundaryProofs**, the readers. Rows that are dated and closed when the next one comes
  are the same thing three times (Processes, Bottlenecks, relationships), so their
  lemmas are stated once, for a key and a column of dates: the windows of an entity
  follow each other without a gap (`InOrder`), a row that succeeds keeps them so
  (`SuccessorInOrder`), and leaves what was current at an earlier moment as it was but
  for the end of its window (`SuccessorKeepsThePast`, with `Echoes` for rows that agree
  in every column but that). `BaseInv` keeps the rows in order and says of the open
  transactions that what they will close is still current. A step is then shown to say
  nothing new of a settled moment (`SettledStep`), and each source of alerts and each
  fact of the ranking to depend on nothing else (`AlertsKept`, `FactsKept`), from which
  `PastFeedsStand` follows for a feed under way and for one given (`AskingInv`,
  `FedInv`); the critiques, whose status has no date, can only go missing. A traversal
  rests on the same lemmas (`RoutesInv`). The ranking's components are bounded by
  arithmetic alone.
* **BoundaryProofs**, the watchlist. `ItemsInv` numbers the rows and allows one live row of
  a node; `CallsInv` says where each request stands, in particular that the row a PUT
  saw is live unless a DELETE marked the request since (`Sees`); `OwnersInv` gives each
  workspace its one owner. What a step may tell a client is shown for each action
  (`Answered`, `Refused`, `Kept`); that a workspace is told of what it watches follows
  from the definitions, as an alert names its Process.

Only model-checked:
* liveness, as fairness and ENABLED are beyond the prover (of `SnapshotsStandAndRunsEnd`
  the first half is proved);
* what is an induction over data: the functions compared with a definition over bounded
  inputs (`SourcesAreComponents` of `WorldsAreIndependent`, `SeriesAreMeasured`,
  `QuotesAreGrounded`, the walks and the requirement trees of `GraphIsReadWhole`, of
  which `PastAnswersStand` is proved).

The run marked **fails** is a refutation and has nothing to prove.

## 5. Where the code and its documentation disagree

The first is a run that fails, with the sentence it refutes; the others were met
while modelling and are either the conditions of properties that hold, or outside
what a property says.

Queue and pipeline
* `docs/orchestration.md:83`, "a dropped event is a delay, never a gap", and
  `O/pipeline.py:203`, "latency rather than correctness": an event that meets a
  handler which has read its input is dropped, and the finder sees a newer record
  (state) or any run at all (discovery). Run `pipeline_covered_gap`.
* `O/queue.py:16`, an exhausted item "becomes dead rather than disappearing": an item
  waiting for its retry does not count as open, so a second one is made for its key;
  from then on claims of the pair raise, and neither is settled (`EventuallySettled`
  excepts twins).
* `docs/orchestration.md:79`, a stage "cannot complete without its successor being
  scheduled": event resolution killed between its effects and its completion finds
  no unclustered claims when retried and announces nothing.
* `O/runner.py:154`, a stage without a handler "fails loudly rather than being
  retried forever": it is retried up to the budget, like any failure.
* `max_attempts` is exceeded by one per crash; a late failure overwrites a success;
  single flight per key (`O/stages.py:98`) ends with the lease.
* `P/routers/stream.py:17`, "no window": a transaction that starts first and commits
  last is never told. A resumed stream skips the siblings of its last event.

Agents
* `A/independence.py:10`, "three pieces from the same outlet are one source", except
  when a copy came first (`OutletSplitsOnlyByCopy`).
* A State is dated by the oldest of its evidence and may therefore be older than the
  one recorded before (`LatestIsLastRecorded` excepts what was dated without
  evidence). The move that closes the commodity cycle is permitted but classified as
  a reversal of seven steps (`A/state_agents.py:234`). Nothing measures a feature, so
  none is stored as measured (`A/state_persistence.py:163`).
* `A/thesis_stage.py:512`, "the Critic's own number": once the thesis stage has
  scored the axis, its next pass reads its own.
* `A/capability_stage.py:474`: upstream Processes are found by edges, which outlive
  the tree that required them. `A/asset_agents.py:231`: what is incidental is
  promoted to an Asset all the same, only without an exposure.
  `A/capability_agents.py:292` counts entries, so a Process named twice counts twice.
* `A/asset_scoring_stage.py` labels the whole card `llm_judgement`, the computed axis
  included. `Bottleneck.resolved` is never set, `requires_review` never cleared,
  `retracted_at` and `event_claims.removed_at` set by no writer.
* A requirement tree with an optional child under "or", or with zero weights, can be
  satisfied below full coverage, or covered without being satisfied
  (`CoverageFollowsSatisfaction` is stated for the others). A group's rationale is
  not stored.

Intake and market
* `ingestion/pipeline.py:152`, "One document's failure never stops the run": a refused
  write or a lost race does. The same article in two renderings is two documents;
  FAILED documents are never parsed again; `min_quote_chars` is used by nothing.
* `eval/audit.py:301`, "Output the evaluator rejected must not have reached the
  ontology": a run rejected for one quote keeps the claims of the others; and
  `claims_stated_after_publication` (`eval/audit.py:158`) finds what no writer prevents:
  `A/persistence.py:217` stores the agent's date unchecked (`AuditsFindKnownSlips`).
* `services/agents/tests/test_extraction_stage.py:128`, "The stored offsets index into
  the real document": where a blank of the quote matched a longer run of blanks,
  `char_end` is short of the passage, and where NFKC lengthens what stands before a
  quote that is not there letter for letter, both offsets count in the normalised
  text, against `A/document_agents.py:198` ("still points into the untouched
  document"). `SpanFits` says what holds of either.
* `market/ingest.py:3`: `recorded_at` is when the run began, not the fetch; this is
  the exception of `PastIsAnswered`. A database failure stops the run, although
  `ingest.py:148` says one bad symbol must not. `Bar.price` mixes raw and adjusted
  closes where only some bars have an adjusted one. A horizon four fifths of which
  have passed reads as resolved and still changes.

Read side
* `graph/integrity.py:84`, "the other edge types ... cannot loop": `supersedes`,
  `contradicts`, and `supports` with `derived_from` can. `would_create_cycle` is
  called by no writer. Cycles are audited to depth eight and foreseen to twelve.
  `neighbors(as_of=...)` does not bind its parameter (no caller). The guard of
  `queries.py:250` never fires. The limit counts routes before targets are filtered.
* `P/alerts.py:47`, "so nothing is missed between runs": a transition followed by a
  confirming estimate is compared with that estimate only. Past alerts use the
  critiques' present status; watched alerts today's watchlist; exposure counts,
  labels and the trail of evidence ignore `as_of`.
* The first revision of a row is dated by the database's clock, later ones by the
  application's; the modules have one clock. Acceleration jumps where the earlier
  window is empty.
* Only the creator of an organization's workspace becomes a member, and `is_member`
  is called by nothing. A first request that loses the race to create it fails.

## 6. Not modelled

* **Bounded pages** (fifty subjects of a finder, fifty claims, a hundred events): no
  instance has fifty of anything, and who starves depends on an order the code leaves
  to the database. Listed as a hazard without a property.
* **What a language model or an embedding answers**: any answer its schema and the
  evaluator let through. Prompts, scores, confidences (where no guard reads them),
  wording, costs.
* **Floating point**: volatility, volume trend, agreement of analogues, cosine
  distances. Ratios are whole percentages, tenths or hundredths.
* **Response shaping**: routers other than the ones named, web pages, headlines and
  provenance of alerts.
* **Network and vendor**: fetching, rate limits of the market client, and token
  verification beyond its verdict.
* **The race of two writers of one edge** is in `ProcessDiscovery`; in
  `CapabilityLayer`, `AssetLayer` and `GraphReads` an edge is written in one step.
* **Evaluation scripts** but for the audits, pydantic schemas, migrations,
  placeholders.

## 7. Plan

What is left, most useful first: a liveness property of finders under a bound on
their list, once the code orders it; the two transactions of `relate` in the
capability and asset layers; and, with a prover that can do inductions over data,
the functions that are only compared with a definition over bounded inputs.

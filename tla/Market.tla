------------------------------- MODULE Market -------------------------------
(***************************************************************************)
(* Prices with two clocks (market, ingest.py, client.py, warehouse.py) and *)
(* the scoring of assets that reads them (agents, asset_scoring_stage.py). *)
(*                                                                         *)
(* A row says what was true of a day (observed) and when it was learned    *)
(* (recorded).  The recorded time is the moment its ingest BEGAN: the rows *)
(* of an asset are fetched later and committed later still.  Exports and   *)
(* scoring passes read the table meanwhile.  A time is also the day it     *)
(* falls on.                                                               *)
(***************************************************************************)
EXTENDS PriceSeries

CONSTANTS
    Ingester, Exporter,
    Asset,          \* the current assets
    Requested,      \* those each ingest is asked for
    Class,          \* of an asset: "stock", "currency" or "commodity"
    Symbols,        \* the assets with a ticker or a pair
    Covered,        \* the assets the vendor knows
    Close, Split,   \* the vendor's closes, and the day of an asset's split (0: none)
    Backfill,       \* how many days before its beginning an ingest reaches
    Exposed,        \* the assets that express the capability, in the order of the query
    MomentumWindow, \* the window asset_metrics calls 6m
    Judged, Technical, \* the axes the agent scores, the one that is computed
    Answers,        \* what the agent may answer: [axes, priced (it reasons about price)]
    MaxClock        \* bound

Time == 1..MaxClock

ASSUME MarketAssumption ==
    /\ MaxClock \in Nat \ {0} /\ Backfill \in Nat
    /\ Requested \in [Ingester -> SUBSET Asset] /\ Exposed \in Seq(Asset)
    /\ Close \in [Asset -> [Time -> Nat]] /\ Split \in [Asset -> 0..MaxClock]
    /\ Symbols \subseteq Asset /\ Covered \subseteq Symbols
    /\ MomentumWindow \in DOMAIN Span /\ Technical \notin Judged

VARIABLES
    clock,
    ingest,         \* of each ingester: [step, began, left, bars, results]
    table,          \* the AssetState rows
    snapshots,      \* the snapshot directories: [stamp, written, rows, open]
    export,         \* of each exporter: the stamp it is writing, or 0
    pass,           \* the scoring pass: [step, moment, next, histories, open, card]
    cards,          \* the scorecards of the asset quality family
    broken          \* history: the stamps of the exports that were broken off

marketVars == <<clock, ingest, table, snapshots, export, pass, cards, broken>>

Idle == [step |-> "idle", began |-> 0, left |-> {}, bars |-> {}, results |-> {}]
NoPass == [step |-> "idle", moment |-> 0, next |-> 1, histories |-> <<>>, open |-> {}, card |-> {}]

MarketInit ==
    /\ clock = 1 /\ broken = {}
    /\ ingest = [i \in Ingester |-> Idle] /\ table = {}
    /\ snapshots = {} /\ export = [x \in Exporter |-> 0]
    /\ pass = NoPass /\ cards = {}

Tick == clock < MaxClock /\ clock' = clock + 1
        /\ UNCHANGED <<ingest, table, snapshots, export, pass, cards, broken>>

-----------------------------------------------------------------------------
(* The vendor. *)

\* A split halves the adjusted close of every earlier day, once it happened.
AdjustedClose(a, day, now) ==
    IF Class[a] # "currency" /\ Split[a] \in day + 1..now THEN Close[a][day] \div 2 ELSE Close[a][day]

\* A row without a close is not a trading day.
VendorBars(a, from, now) ==
    {[asset |-> a, day |-> d, close |-> Close[a][d], adj |-> AdjustedClose(a, d, now)] :
        d \in {e \in Time : e >= from /\ e <= now /\ Close[a][e] # NoPrice}}

-----------------------------------------------------------------------------
(* MarketIngest.run: one asset after the other, in the order the query     *)
(* finds them (it has no ORDER BY), each in a transaction.                 *)

Priceable(a) == Class[a] # "commodity" /\ a \in Symbols
Open(i) == ingest[i].step \in {"fetch", "store"}
OpenSince == {ingest[i].began : i \in {j \in Ingester : Open(j)}}
IngestStep(i, step) ==
    /\ ingest' = [ingest EXCEPT ![i] = step]
    /\ UNCHANGED <<clock, snapshots, export, pass, cards, broken>>

\* The clock has microseconds: what begins after another has read it begins later.
ReadingsOfTheClock ==
    {ingest[j].began : j \in Ingester} \cup {s.stamp : s \in snapshots} \cup {pass.moment}
BeginIngest(i) ==
    /\ ingest[i].step = "idle" /\ clock \notin ReadingsOfTheClock
    /\ IngestStep(i, [ingest[i] EXCEPT !.step = "fetch", !.began = clock,
                                       !.left = {a \in Requested[i] : Priceable(a)}])
    /\ UNCHANGED table

\* What the run still has to do once an asset has its result.
Reported(r, a, outcome) ==
    [r EXCEPT !.step = "fetch", !.left = @ \ {a}, !.bars = {},
              !.results = @ \cup {[asset |-> a, ok |-> outcome]}]

Fetch(i) ==
    /\ ingest[i].step = "fetch"
    /\ \E a \in ingest[i].left \cap Covered :
          LET bars == VendorBars(a, ingest[i].began - Backfill, clock)
          IN IngestStep(i, IF bars = {} THEN Reported(ingest[i], a, FALSE)
                           ELSE [ingest[i] EXCEPT !.step = "store", !.bars = bars])
    /\ UNCHANGED table

\* Mutant: a symbol that cannot be fetched is skipped without a word.
FetchFailsSilently(i) ==
    /\ ingest[i].step = "fetch"
    /\ \E a \in ingest[i].left : IngestStep(i, [ingest[i] EXCEPT !.left = @ \ {a}])
    /\ UNCHANGED table

\* Not covered, or anything else the request raises.
FetchFails(i) ==
    /\ ingest[i].step = "fetch"
    /\ \E a \in ingest[i].left : IngestStep(i, Reported(ingest[i], a, FALSE))
    /\ UNCHANGED table

Store(i) ==
    /\ ingest[i].step = "store"
    /\ table' = table \cup {[asset |-> b.asset, observed |-> b.day, recorded |-> ingest[i].began,
                             close |-> b.close, adj |-> b.adj] : b \in ingest[i].bars}
    /\ \E b \in ingest[i].bars : IngestStep(i, Reported(ingest[i], b.asset, TRUE))

FinishIngest(i) ==
    /\ ingest[i].step = "fetch" /\ ingest[i].left = {}
    /\ IngestStep(i, [ingest[i] EXCEPT !.step = "done"])
    /\ UNCHANGED table

\* Killed; or the store raised, which is outside the try: that ends the run for
\* every asset.
IngestStops(i) ==
    /\ Open(i)
    /\ IngestStep(i, [ingest[i] EXCEPT !.step = "stopped", !.bars = {}])
    /\ UNCHANGED table

-----------------------------------------------------------------------------
(* Point-in-time reads: the newest version of a day known at a moment. *)

Newest(rows) == CHOOSE r \in rows : \A q \in rows : q.recorded <= r.recorded
Known(rows, moment) == {r \in rows : r.observed <= moment /\ r.recorded <= moment}

\* as_known_at, over a snapshot
AsKnownAt(rows, moment) ==
    LET known == Known(rows, moment)
    IN {Newest({q \in known : q.asset = r.asset /\ q.observed = r.observed}) : r \in known}

\* latest_known_at: the last day, and its newest version
LatestKnownAt(rows, a, moment) ==
    LET known == {r \in Known(rows, moment) : r.asset = a}
        last == {r \in known : \A q \in known : q.observed <= r.observed}
    IN IF known = {} THEN {} ELSE {Newest(last)}

\* _history: ordered by day and newest first, and a day already seen skipped
History(rows, a, moment) ==
    {[day |-> r.observed, close |-> r.close, adj |-> r.adj] :
        r \in {q \in Known(rows, moment) :
                  /\ q.asset = a
                  /\ \A p \in Known(rows, moment) :
                        p.asset = a /\ p.observed = q.observed => p.recorded <= q.recorded}}

-----------------------------------------------------------------------------
(* Warehouse: a directory per second, made first and filled afterwards. *)

BeginExport(x) ==
    /\ export[x] = 0 /\ \A s \in snapshots : s.stamp # clock
    /\ snapshots' = snapshots \cup {[stamp |-> clock, written |-> FALSE, rows |-> {}, open |-> {}]}
    /\ export' = [export EXCEPT ![x] = clock]
    /\ UNCHANGED <<clock, ingest, table, pass, cards, broken>>

WriteExport(x) ==
    /\ export[x] # 0
    /\ snapshots' = {s \in snapshots : s.stamp # export[x]}
                    \cup {[stamp |-> export[x], written |-> TRUE, rows |-> table, open |-> OpenSince]}
    /\ export' = [export EXCEPT ![x] = 0]
    /\ UNCHANGED <<clock, ingest, table, pass, cards, broken>>

\* Killed; or _prices or _write raised: the directory is there and stays.
ExportStops(x) ==
    /\ export[x] # 0
    /\ broken' = broken \cup {export[x]} /\ export' = [export EXCEPT ![x] = 0]
    /\ UNCHANGED <<clock, ingest, table, snapshots, pass, cards>>

\* Warehouse.latest
Latest == {s \in snapshots : \A t \in snapshots : t.stamp <= s.stamp}

-----------------------------------------------------------------------------
(* AssetScoringStage.run: the histories one after the other, the metrics   *)
(* from all of them, then a card for each asset.                           *)

PassStep(step) ==
    /\ pass' = step
    /\ UNCHANGED <<clock, ingest, table, snapshots, export, broken>>

BeginPass ==
    /\ pass.step = "idle" /\ Exposed # <<>>
    /\ \E moment \in 1..clock : PassStep([NoPass EXCEPT !.step = "read", !.moment = moment])
    /\ UNCHANGED cards

\* What a pass does once it has the history of its asset: the next one, or
\* the scores from the first asset on.
WithHistory(history) ==
    LET last == pass.next = Len(Exposed)
    IN [pass EXCEPT !.histories = Append(@, history), !.open = @ \cup OpenSince,
                    !.step = IF last THEN "score" ELSE "read",
                    !.next = IF last THEN 1 ELSE @ + 1]

\* Mutant: the histories as they are known now.
ReadHistoryNow ==
    /\ pass.step = "read"
    /\ PassStep(WithHistory(History(table, Exposed[pass.next], clock)))
    /\ UNCHANGED cards

ReadHistory ==
    /\ pass.step = "read"
    /\ PassStep(WithHistory(History(table, Exposed[pass.next], pass.moment)))
    /\ UNCHANGED cards

Metrics(p) == [n \in DOMAIN p.histories |-> MetricsOf(Prices(p.histories[n]))]

\* The evaluators of the quality agent: every judged axis, none that is
\* measured or has no source, and nothing about price.
Accepted(answer) == answer.axes = Judged /\ ~answer.priced

ComputedDimensions(p) ==
    IF Confirmable(Metrics(p)[p.next], MomentumWindow)
    THEN {[axis |-> Technical, producer |-> "computed"]} ELSE {}
\* The inputs stored beside the computed axis, by which it is explained.
Inputs(p) ==
    LET own == Metrics(p)[p.next]
        peers == [n \in DOMAIN Exposed \ {p.next} |-> Metrics(p)[n]]
    IN IF ComputedDimensions(p) = {} THEN {}
       ELSE {<<"score", TechnicalConfirmation(own, MomentumWindow)>>}
            \cup IF Ranked(own, peers, MomentumWindow)
                 THEN {<<"strength", RelativeStrength(own, peers, MomentumWindow)>>} ELSE {}

Card(p, judged) ==
    [asset |-> Exposed[p.next], moment |-> p.moment, bars |-> p.histories[p.next],
     open |-> p.open, inputs |-> Inputs(p), explained |-> FALSE,
     dimensions |-> ComputedDimensions(p) \cup {[axis |-> x, producer |-> "agent"] : x \in judged}]

\* Mutant: the asset is scored again.
SameAsset(p) == [p EXCEPT !.card = {}, !.step = "score"]

NextAsset(p) ==
    [p EXCEPT !.next = @ + 1, !.card = {}, !.step = IF p.next = Len(Exposed) THEN "done" ELSE "score"]

Scores(judged) ==
    LET card == Card(pass, judged) IN
    /\ pass.step = "score"
    /\ IF card.dimensions = {} THEN PassStep(NextAsset(pass)) /\ UNCHANGED cards
       ELSE /\ cards' = cards \cup {card}
            /\ PassStep([pass EXCEPT !.step = "annotate", !.card = {card}])

Judge == \E answer \in Answers : Scores(IF Accepted(answer) THEN answer.axes ELSE {})

\* No valid output after the repairs, or a refusal: the card is what is computed.
JudgeFails == Scores({})

Annotate ==
    /\ pass.step = "annotate"
    /\ cards' = (cards \ pass.card) \cup {[c EXCEPT !.explained = TRUE] : c \in pass.card}
    /\ PassStep(NextAsset(pass))

\* Killed; or a transaction of the pass raised, the annotation after the card too.
PassStops ==
    /\ pass.step \in {"read", "score", "annotate"}
    /\ PassStep([pass EXCEPT !.step = "stopped"]) /\ UNCHANGED cards

-----------------------------------------------------------------------------

MarketNext ==
    \/ Tick
    \/ \E i \in Ingester :
          \/ BeginIngest(i) \/ Fetch(i) \/ FetchFails(i) \/ Store(i)
          \/ FinishIngest(i) \/ IngestStops(i)
    \/ \E x \in Exporter : BeginExport(x) \/ WriteExport(x) \/ ExportStops(x)
    \/ BeginPass \/ ReadHistory \/ Judge \/ JudgeFails \/ Annotate \/ PassStops

MarketSpec == MarketInit /\ [][MarketNext]_marketVars

Progress ==
    \/ \E i \in Ingester : Fetch(i) \/ FetchFails(i) \/ Store(i) \/ FinishIngest(i)
    \/ \E x \in Exporter : WriteExport(x)
    \/ ReadHistory \/ Judge \/ JudgeFails \/ Annotate

\* Something goes on as long as anything can: an event loop does not stop while
\* a coroutine is ready.  Nothing makes a new run begin.
FairMarketSpec == MarketSpec /\ WF_marketVars(Progress)

-----------------------------------------------------------------------------
(* Properties. *)

\* The rows, the directories and the passes have the shapes the code gives them.
MarketTypeOK ==
    /\ clock \in Time /\ broken \subseteq 1..clock
    /\ \A i \in Ingester :
          /\ ingest[i].step \in {"idle", "fetch", "store", "done", "stopped"}
          /\ ingest[i].began \in 0..clock
          /\ ingest[i].bars # {} <=> ingest[i].step = "store"
    /\ \A r \in table : r.asset \in Asset /\ r.observed \in 1..clock /\ r.recorded \in 1..clock
    /\ \A s \in snapshots : s.stamp \in 1..clock /\ (~s.written => s.rows = {})
    /\ pass.step \in {"idle", "read", "score", "annotate", "done", "stopped"}
    /\ pass.step = "annotate" => pass.card # {}

\* The three point-in-time reads are written apart, in two libraries and SQL:
\* for one asset and one moment they give the same version of every day.
ReadersAgree ==
    \A a \in Asset : \A m \in Time :
        LET rows == {r \in AsKnownAt(table, m) : r.asset = a} IN
        /\ History(table, a, m) = {[day |-> r.observed, close |-> r.close, adj |-> r.adj] : r \in rows}
        /\ \A r \in rows : \E q \in rows : q.observed = r.observed /\ q.recorded = r.recorded
        /\ LatestKnownAt(table, a, m) = {r \in rows : \A q \in rows : q.observed <= r.observed}

\* A card repeats: scoring the asset again at the card's moment finds the same
\* bars and the same score, whatever was fetched since, unless an ingest begun
\* by that moment was still writing when the histories were read.
CardCanBeReplayed ==
    \A c \in cards :
        (\A began \in c.open : began > c.moment) =>
            /\ c.bars = History(table, c.asset, c.moment)
            /\ \A input \in c.inputs :
                  input[1] = "score" =>
                      input[2] = TechnicalConfirmation(
                                    MetricsOf(Prices(History(table, c.asset, c.moment))), MomentumWindow)

\* A snapshot answers for every moment before it as the table still does
\* (warehouse.py: "immutable"), under the same exception.
SnapshotAnswersForThePast ==
    \A s \in snapshots : \A m \in 1..s.stamp :
        s.written /\ (\A began \in s.open : began > m) => AsKnownAt(s.rows, m) = AsKnownAt(table, m)

\* A directory, once written, never changes, and none is removed: an export
\* at the second of another fails instead (warehouse.py:96-100).
SnapshotsAreImmutable ==
    [][\A s \in snapshots : s.written => s \in snapshots']_marketVars

\* The newest snapshot, which every reader takes when none is named, lacks its
\* table only while its export is writing, or because that export was broken off.
EmptyLatestWasBrokenOff ==
    \A s \in Latest : s.written \/ (\E x \in Exporter : export[x] = s.stamp) \/ s.stamp \in broken

\* A finished ingest says of each priceable asset it was asked for whether it
\* has prices, once, and the table has rows of that ingest for just those it claims;
\* one that was stopped left no rows of the asset it was at.
ReportMatchesTable ==
    \A i \in Ingester :
        LET stored == {r.asset : r \in {q \in table : q.recorded = ingest[i].began}}
            reported == {r.asset : r \in ingest[i].results}
        IN /\ stored = {r.asset : r \in {q \in ingest[i].results : q.ok}}
           /\ \A p, q \in ingest[i].results : p.asset = q.asset => p = q
           /\ ingest[i].step = "done" => reported = {a \in Requested[i] : Priceable(a)}
           /\ ingest[i].step = "stopped" => stored \cap ingest[i].left = {}

\* The computed axis is never the agent's and the judged ones never computed,
\* no axis has two producers, which the key of the table would refuse, and the
\* agent's are all there or none is.
OneProducerPerAxis ==
    \A c \in cards :
        /\ c.dimensions # {}
        /\ \A d \in c.dimensions : d.producer = "computed" <=> d.axis = Technical
        /\ {d.axis : d \in {e \in c.dimensions : e.producer = "agent"}} \in {{}, Judged}
        /\ \A d \in c.dimensions : \A e \in c.dimensions : d.axis = e.axis => d = e

\* The rationale is written after the card: a pass leaves at most its last card
\* unexplained, and only by stopping between the two.
OnlyLastCardIsUnexplained ==
    \A c \in cards : c.explained \/ (pass.card = {c} /\ pass.step \in {"annotate", "stopped"})

Quiet ==
    /\ \A i \in Ingester : ~Open(i)
    /\ \A x \in Exporter : export[x] = 0
    /\ pass.step \in {"idle", "done", "stopped"}
\* Everything begun ends, whatever the vendor, the agent and the database do.
EveryRunEnds == <>[]Quiet

(* A past moment has one answer: the warehouse's readers agree on it, a snapshot
   gives it, and a scorecard can be replayed from it. *)
PastIsAnswered ==
    /\ MarketTypeOK
    /\ ReadersAgree
    /\ CardCanBeReplayed
    /\ SnapshotAnswersForThePast

(* What is measured on a price series is what its definition says, on every
   bounded series: drawdown, confirmation, strength among peers, where an outcome
   starts, which horizons are resolved, and what a summary counts; and what a
   pass measures on the prices it read fits the column it is stored in. *)
SeriesAreMeasured ==
    /\ DrawdownIsWorstFall
    /\ ConfirmationFollowsTheClose
    /\ StrengthOrdersPeers
    /\ OutcomeStartsAtTheMoment
    /\ ResolvedHorizonStands
    /\ SummaryCountsEveryEpisode
    /\ \A c \in cards : \A input \in c.inputs : input[2] \in 0..100

(* What a pass did, it says: its report matches the table, an empty latest
   snapshot was broken off, only the card a pass stopped at is unexplained, and
   each axis has its producer. *)
PassesAreAccounted ==
    /\ EmptyLatestWasBrokenOff
    /\ ReportMatchesTable
    /\ OneProducerPerAxis
    /\ OnlyLastCardIsUnexplained

(* A written snapshot is never changed, and every ingest, export and scoring pass
   comes to an end. *)
SnapshotsStandAndRunsEnd ==
    /\ SnapshotsAreImmutable
    /\ EveryRunEnds
=============================================================================

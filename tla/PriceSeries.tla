---------------------------- MODULE PriceSeries ----------------------------
(***************************************************************************)
(* What is computed from a price history: the metrics an asset is scored   *)
(* on (agents, asset_metrics.py), the outcome of an episode (market,       *)
(* outcomes.py) and the distribution of outcomes (distribution.py).        *)
(*                                                                         *)
(* A ratio is a whole percentage, rounded down: the rounding keeps the     *)
(* order of ratios, which is all the definitions below use of them.        *)
(***************************************************************************)
EXTENDS Integers, Sequences, FiniteSets
LOCAL INSTANCE FiniteSetsExt
LOCAL INSTANCE Functions

CONSTANTS
    Span,           \* the windows of a return, in days
    LongRun,        \* the days of the long average
    Horizon,        \* the horizons of an outcome, in days
    SampleDays, SamplePrices  \* bounds: the histories the definitions are checked on

ASSUME PriceSeriesAssumption ==
    /\ Span \in [DOMAIN Span -> Nat \ {0}] /\ Horizon \in [DOMAIN Horizon -> Nat \ {0}]
    /\ LongRun \in Nat \ {0} /\ SampleDays \in Nat /\ SamplePrices \subseteq Nat \ {0}

Change(start, end) == (100 * end) \div start - 100
Clamped(n) == Max({0, Min({100, n})})
Recent(s, n) == SubSeq(s, Max({1, Len(s) - n + 1}), Len(s))

NoPrice == 0
\* A vendor that sends no adjusted close leaves the raw one to stand for it.
Price(bar) == IF bar.adj # NoPrice THEN bar.adj ELSE bar.close

InOrderOfDay(bars) ==
    [n \in 1..Cardinality(bars) |->
        CHOOSE b \in bars : Cardinality({c \in bars : c.day < b.day}) = n - 1]
Prices(bars) == [n \in 1..Cardinality(bars) |-> Price(InOrderOfDay(bars)[n])]

-----------------------------------------------------------------------------
(* asset_metrics *)

\* Sixty percent of a window is enough of it.
Covers(prices, w) == 5 * Len(prices) >= 3 * Span[w]
WindowReturn(prices, w) == LET window == Recent(prices, Span[w]) IN Change(Head(window), window[Len(window)])

MaxDrawdown(prices) ==
    LET peak == [n \in DOMAIN prices |-> Max({prices[m] : m \in 1..n})]
    IN Min({0} \cup {Change(peak[n], prices[n]) : n \in DOMAIN prices})

PriceToAverage(prices) ==
    (100 * LongRun * prices[Len(prices)]) \div FoldFunction(LAMBDA p, sum : p + sum, 0, Recent(prices, LongRun))

Metric(prices, name) ==
    CASE name \in DOMAIN Span -> WindowReturn(prices, name)
      [] name = "max_drawdown" -> MaxDrawdown(prices)
      [] name = "price_to_average" -> PriceToAverage(prices)

\* The metrics a history supports; the absent ones are reported as missing.
MetricsOf(prices) ==
    IF Len(prices) < 2 THEN <<>>
    ELSE [name \in {w \in DOMAIN Span : Covers(prices, w)} \cup {"max_drawdown"}
                   \cup (IF Len(prices) >= LongRun THEN {"price_to_average"} ELSE {})
             |-> Metric(prices, name)]

\* The share of the peers an asset is ahead of; nothing is said against one.
Ranked(own, peers, w) ==
    w \in DOMAIN own /\ Cardinality({p \in DOMAIN peers : w \in DOMAIN peers[p]}) >= 2

RelativeStrength(own, peers, w) ==
    LET known == {p \in DOMAIN peers : w \in DOMAIN peers[p]}
    IN (100 * Cardinality({p \in known : peers[p][w] < own[w]})) \div Cardinality(known)

Confirmable(metrics, w) == {w, "price_to_average"} \cap DOMAIN metrics # {}
Weight(name) == IF name = "max_drawdown" THEN 20 ELSE 40

Component(metrics, name) ==
    CASE name = "price_to_average" -> Clamped((100 * (metrics[name] - 90)) \div 30)
      [] name = "max_drawdown" -> Clamped(100 + 2 * metrics[name])
      [] OTHER -> Clamped((100 * (metrics[name] + 20)) \div 60)
\* On a scale of a hundred, which is ten times the column's.
TechnicalConfirmation(metrics, w) ==
    LET parts == {w, "price_to_average", "max_drawdown"} \cap DOMAIN metrics
    IN MapThenSumSet(LAMBDA p : Weight(p) * Component(metrics, p), parts)
           \div MapThenSumSet(Weight, parts)

-----------------------------------------------------------------------------
(* outcomes: what happened after a moment, from the price in force at it *)

After(bars, moment) == Prices({b \in bars : b.day > moment /\ b.adj # NoPrice})
UpTo(bars, moment) == Prices({b \in bars : b.day <= moment /\ b.adj # NoPrice})

Base(bars, moment) == LET known == UpTo(bars, moment) IN known[Len(known)]
Based(bars, moment) == UpTo(bars, moment) # <<>> /\ After(bars, moment) # <<>>

\* Eighty percent of a horizon is enough of it.
Reached(series, h) == 5 * Len(series) >= 4 * Horizon[h]
\* Mutant: whatever came last.
HorizonReturnLast(base, series, h) == Change(base, series[Len(series)])

HorizonReturn(base, series, h) == Change(base, series[Min({Horizon[h], Len(series)})])

Outcome(bars, moment) ==
    LET series == After(bars, moment)
        answered == IF Based(bars, moment) THEN {h \in DOMAIN Horizon : Reached(series, h)} ELSE {}
    IN [returns |-> [h \in answered |-> HorizonReturn(Base(bars, moment), series, h)],
        unavailable |-> DOMAIN Horizon \ answered,
        drawdown |-> IF Based(bars, moment) /\ Len(series) >= 2 THEN {MaxDrawdown(series)} ELSE {},
        upside |-> IF Based(bars, moment)
                   THEN {Change(Base(bars, moment), Max({series[n] : n \in DOMAIN series}))} ELSE {}]

Relative(bars, benchmark, moment) ==
    LET own == Outcome(bars, moment).returns
        marks == Outcome(benchmark, moment).returns
    IN [h \in DOMAIN own \cap DOMAIN marks |-> own[h] - marks[h]]

-----------------------------------------------------------------------------
(* distribution *)

Quantiles == {10, 25, 50, 75, 90}

\* values is a sequence: two episodes may end alike.
Ordered(values) ==
    [n \in DOMAIN values |->
        CHOOSE v \in {values[m] : m \in DOMAIN values} :
            /\ Cardinality({m \in DOMAIN values : values[m] < v}) < n
            /\ Cardinality({m \in DOMAIN values : values[m] <= v}) >= n]

\* The interpolation between the two nearest values, in hundredths of a percent.
Percentile(ordered, q) ==
    LET position == q * (Len(ordered) - 1)
        lower == position \div 100 + 1
        upper == Min({lower + 1, Len(ordered)})
        weight == position % 100
    IN (100 - weight) * ordered[lower] + weight * ordered[upper]

Summary(outcomes, h) ==
    LET resolved == SelectSeq(outcomes, LAMBDA o : h \in DOMAIN o.returns)
        ordered == Ordered([n \in DOMAIN resolved |-> resolved[n].returns[h]])
    IN [sample |-> Len(resolved),
        censored |-> Len(SelectSeq(outcomes, LAMBDA o : h \in o.unavailable)),
        percentiles |-> [q \in (IF resolved = <<>> THEN {} ELSE Quantiles) |-> Percentile(ordered, q)],
        positive |-> Len(SelectSeq(ordered, LAMBDA v : v > 0)),
        extremes |-> IF resolved = <<>> THEN <<>> ELSE <<ordered[1], ordered[Len(ordered)]>>]
AcrossHorizons(outcomes) == [h \in DOMAIN Horizon |-> Summary(outcomes, h)]

-----------------------------------------------------------------------------
(* Properties, over every history of at most SampleDays days: there is none *)
(* on which the claim fails.                                               *)

Histories == UNION {[1..n -> SamplePrices] : n \in 1..SampleDays}
Daily(prices) == {[day |-> n, close |-> prices[n], adj |-> prices[n]] : n \in DOMAIN prices}
Episodes(prices) == [n \in 1..Len(prices) + 1 |-> Outcome(Daily(prices), n - 1)]

WorstFall(p) == Min({Change(p[d[1]], p[d[2]]) : d \in {e \in (DOMAIN p) \X (DOMAIN p) : e[1] <= e[2]}})
MissedFalls == {p \in Histories : MaxDrawdown(p) # WorstFall(p)}
\* The running peak of _max_drawdown finds the deepest fall between any two
\* days, the later one counted from the earlier.
DrawdownIsWorstFall == MissedFalls = {}

Follows(p) ==
    \A w \in DOMAIN Span : Confirmable(MetricsOf(p), w) =>
        /\ TechnicalConfirmation(MetricsOf(p), w) \in 0..100
        /\ \A close \in SamplePrices : close >= p[Len(p)] =>
              TechnicalConfirmation(MetricsOf([p EXCEPT ![Len(p)] = close]), w)
                  >= TechnicalConfirmation(MetricsOf(p), w)
Unfollowed == {p \in Histories : ~Follows(p)}
\* The score fits the column, whose check refuses it above ten or below zero
\* and would end the pass; and a stronger last close never lowers it.
ConfirmationFollowsTheClose == Unfollowed = {}

\* A return of ten stands for an asset without one.
OrdersPeers(returns, w) ==
    LET metrics == [a \in DOMAIN returns |-> IF returns[a] = 10 THEN <<>> ELSE [x \in {w} |-> returns[a]]]
        Peers(a) == [b \in DOMAIN returns \ {a} |-> metrics[b]]
        ranked == {a \in DOMAIN returns : Ranked(metrics[a], Peers(a), w)}
    IN \A a \in ranked : \A b \in ranked :
           returns[a] > returns[b] =>
               RelativeStrength(metrics[a], Peers(a), w) > RelativeStrength(metrics[b], Peers(b), w)
Misranked == {c \in [1..4 -> {-5, 0, 5, 10}] \X DOMAIN Span : ~OrdersPeers(c[1], c[2])}
\* Each asset is ranked against another set of peers, itself left out: the
\* ranks order the assets as their returns do all the same.
StrengthOrdersPeers == Misranked = {}

Starts(p) ==
    \A n \in DOMAIN p : Outcome(Daily(p), n) = Outcome(Daily(SubSeq(p, n, Len(p))), 1)
EarlyStarts == {p \in Histories : ~Starts(p)}
\* The outcome is what happened after the moment, from the price then in
\* force: what came before that price does not enter it (section 9.4).
OutcomeStartsAtTheMoment == EarlyStarts = {}

Stands(p) ==
    \A n \in DOMAIN p : \A h \in DOMAIN Outcome(Daily(p), n).returns :
        /\ Relative(Daily(p), Daily(p), n)[h] = 0
        /\ \A m \in n + Horizon[h]..Len(p) :
              Outcome(Daily(SubSeq(p, 1, m)), n).returns[h] = Outcome(Daily(p), n).returns[h]
Shifted == {p \in Histories : ~Stands(p)}
\* A horizon that has passed in full keeps its answer however much follows,
\* and measured against itself every asset comes out at nothing.
ResolvedHorizonStands == Shifted = {}

Counts(p) ==
    \A h \in DOMAIN Horizon :
        LET summary == AcrossHorizons(Episodes(p))[h] IN
        /\ summary.sample + summary.censored = Len(p) + 1
        /\ \A q \in DOMAIN summary.percentiles : \A r \in DOMAIN summary.percentiles :
              /\ q <= r => summary.percentiles[q] <= summary.percentiles[r]
              /\ summary.percentiles[q] \in 100 * summary.extremes[1]..100 * summary.extremes[2]
              /\ summary.positive = 0 => summary.percentiles[q] <= 0
Miscounted == {p \in Histories : ~Counts(p)}
\* Every episode is counted once at every horizon, as resolved or as censored,
\* those without any price among them; the percentiles are in order between
\* the worst and the best.
SummaryCountsEveryEpisode == Miscounted = {}
=============================================================================

----------------------------- MODULE ThesisFeed -----------------------------
(***************************************************************************)
(* What the API derives from the dated rows of a Process when it is asked: *)
(* the semantic alerts and the Discover ranking (api, alerts.py,           *)
(* discover.py, temporal.py and their routers).                            *)
(*                                                                         *)
(* Agents write rows in transactions, dated when they begin and seen when  *)
(* they commit.  A feed first finds its Processes, then what is to be said *)
(* of them; the queries of the second part are taken together, since what  *)
(* each finds is told apart from the others.  Headlines, provenance and    *)
(* paging are left out; confidences are in hundredths.                     *)
(***************************************************************************)
EXTENDS GraphReads, Integers

CONSTANTS
    FirstLog,           \* the rows there are at the beginning, by table
    Changes,            \* what agents record: [table, row], not yet dated
    AlertWindow,        \* how far back an alert reaches
    EvidenceWindow,     \* WINDOW of discover.py
    TickDays,           \* the days of a step of the clock
    MaxChanges          \* bound

Versioned == {"process", "bottleneck"}
Columns ==
    [process |-> {"process", "status"}, bottleneck |-> {"process", "binding"},
     state |-> {"process", "label", "observed", "confidence"}, belief |-> {"process", "moved"},
     critique |-> {"process", "damaging", "open"}, link |-> {"process", "event", "supports"}]
Dates(table) == IF table \in Versioned THEN {"at", "revision", "to"} ELSE {"at"}
\* The numbers a column may hold.
InRange(table, row) == table = "state" => row.observed \in Int /\ row.confidence \in 0..100

ASSUME FeedAssumption ==
    /\ {AlertWindow, EvidenceWindow, TickDays, MaxChanges} \subseteq Nat
    /\ \A change \in Changes :
          /\ change.table \in DOMAIN Columns
          /\ DOMAIN change.row = Columns[change.table] /\ InRange(change.table, change.row)
    /\ DOMAIN FirstLog = DOMAIN Columns
    /\ \A table \in DOMAIN Columns :
          /\ IsFiniteSet(FirstLog[table])
          /\ \A r \in FirstLog[table] :
                /\ DOMAIN r = Columns[table] \cup Dates(table) /\ InRange(table, r) /\ r.at = 1
                /\ table \in Versioned =>
                      r.to = NoEnd /\ \A s \in FirstLog[table] : s.process = r.process => s = r

VARIABLES
    log,        \* of each table its rows
    pending,    \* the open transaction of an agent: {} or one [table, row, closes]
    changes,
    asking,     \* the feed in progress: {} or one [asOf, cut, clean, processes]
    fed         \* the last feed: {} or one [asOf, cut, clean, alerts, facts]

feedVars == <<log, pending, changes, asking, fed>>

FeedInit == log = FirstLog /\ pending = {} /\ changes = 0 /\ asking = {} /\ fed = {}

Stamps == {p.row.at : p \in pending} \cup OpenStamps

-----------------------------------------------------------------------------
(* The rows. *)

CurrentRow(change) ==
    IF change.table \notin Versioned THEN {}
    ELSE {r \in log[change.table] : r.process = change.row.process /\ r.to = NoEnd}
Revision(closed) == 1 + Cardinality(closed) * Max({0} \cup {r.revision : r \in closed})

\* A State is dated by the Event and the clock has microseconds: no two of a
\* Process have both dates in common.
Distinct(change) ==
    change.table = "state" =>
        \A r \in log["state"] : r.process = change.row.process => <<r.observed, r.at>> # <<change.row.observed, clock>>

\* A row with the columns the database fills in.
With(row, columns) ==
    [c \in DOMAIN row \cup DOMAIN columns |-> IF c \in DOMAIN columns THEN columns[c] ELSE row[c]]

RecordsRow(change) ==
    /\ pending = {} /\ changes < MaxChanges /\ Distinct(change)
    /\ pending' = {[table |-> change.table, closes |-> CurrentRow(change),
                    row |-> With(change.row,
                                 IF change.table \in Versioned
                                 THEN [at |-> clock, revision |-> Revision(CurrentRow(change)), to |-> NoEnd]
                                 ELSE [at |-> clock])]}
    /\ changes' = changes + 1
    /\ UNCHANGED <<log, asking, fed>>

CommitRow ==
    /\ \E p \in pending :
           log' = [log EXCEPT ![p.table] = Replaced(log[p.table], p.closes, p.row.at) \cup {p.row}]
    /\ pending' = {}
    /\ UNCHANGED <<changes, asking, fed>>

\* The Critic closes the findings of its previous pass.
Superseded(c) == [c EXCEPT !.open = FALSE]
ClosesCritiques ==
    /\ \E c \in log["critique"] : c.open
    /\ log' = [log EXCEPT !["critique"] = {Superseded(c) : c \in log["critique"]}]
    /\ UNCHANGED <<pending, changes, asking, fed>>

-----------------------------------------------------------------------------
(* temporal.py: the window is asked for the present too. *)

CutOf(asOf) == IF asOf = Now THEN clock ELSE asOf
\* Mutant: a past moment takes what is current today.
CurrentRevisionOfToday(rows, asOf) == {r \in rows : r.to = NoEnd}
CurrentRevision(rows, asOf) ==
    {r \in rows : r.at <= CutOf(asOf) /\ (r.to = NoEnd \/ r.to > CutOf(asOf))}
RecordedBy(rows, asOf) == {r \in rows : asOf = Now \/ r.at <= asOf}

\* The States of a Process, the latest observed first.
Later(r, s) == r.observed > s.observed \/ (r.observed = s.observed /\ r.at >= s.at)
LatestOf(rows) == {r \in rows : \A s \in rows : Later(r, s)}
StatesOf(process, asOf) == {r \in RecordedBy(log["state"], asOf) : r.process = process}

-----------------------------------------------------------------------------
(* alerts.generate. *)

Alert(kind, severity, id) == [kind |-> kind, severity |-> severity, id |-> id]
Recent(at, cut) == cut - AlertWindow <= at /\ at <= cut

StateTransitions(processes, asOf, cut) ==
    {Alert("state_transition", "notable", <<"state", s.process, s.observed, s.at>>) :
        s \in {r \in log["state"] :
            /\ r.process \in processes /\ Recent(r.at, cut)
            /\ r \in LatestOf(StatesOf(r.process, asOf))
            /\ \E previous \in LatestOf(StatesOf(r.process, asOf) \ {r}) : previous.label # r.label}}

\* A move of less than two hundredths is none.
BeliefChanges(processes, asOf, cut) ==
    {Alert(IF b.moved < 0 THEN "thesis_weakened" ELSE "thesis_strengthened",
           IF b.moved < 0 THEN "urgent" ELSE "informational", <<"belief", b.process, b.moved, b.at>>) :
        b \in {r \in RecordedBy(log["belief"], asOf) :
            r.process \in processes /\ Recent(r.at, cut) /\ (r.moved <= -2 \/ r.moved >= 2)}}

ContradictingEvidence(processes, cut) ==
    {Alert("contradicting_evidence", "urgent", <<"against", l.process, l.event, l.at>>) :
        l \in {r \in log["link"] : r.process \in processes /\ ~r.supports /\ Recent(r.at, cut)}}

Stopped(b) == ~b.binding
BottleneckChanges(processes, asOf, cut) ==
    {Alert(IF Stopped(b) THEN "bottleneck_resolving" ELSE "bottleneck_emerged", "notable", <<"bottleneck", b.process, b.revision>>) :
        b \in {r \in CurrentRevision(log["bottleneck"], asOf) :
            r.process \in processes /\ Recent(r.at, cut) /\ (Stopped(r) \/ r.revision = 1)}}

Critiques(processes, asOf, cut) ==
    {Alert("critique_opened", IF c.damaging THEN "urgent" ELSE "notable", <<"critique", c.process, c.at>>) :
        c \in {r \in RecordedBy(log["critique"], asOf) : r.process \in processes /\ r.open /\ Recent(r.at, cut)}}

\* What a feed is about: no Processes named means all of them.
Subjects(named, asOf) ==
    LET current == {r.process : r \in CurrentRevision(log["process"], asOf)}
    IN IF named = {} THEN current ELSE current \cap named

\* The critiques apart: their status has no date.
Generate(processes, asOf, cut) ==
    [dated |-> StateTransitions(processes, asOf, cut) \cup BeliefChanges(processes, asOf, cut)
                   \cup ContradictingEvidence(processes, cut) \cup BottleneckChanges(processes, asOf, cut),
     critiques |-> Critiques(processes, asOf, cut)]

-----------------------------------------------------------------------------
(* discover.rank_processes. *)

Unit == 120

\* Merged Processes are another one by now, invalidated ones are concluded.
Candidates(asOf) ==
    {r.process : r \in {q \in CurrentRevision(log["process"], asOf) : q.status \notin {"merged", "invalidated"}}}

EvidenceBetween(process, from, to) ==
    Cardinality({l \in log["link"] : l.process = process /\ l.at > from /\ l.at <= to})

Facts(process, asOf, cut) ==
    [recent |-> EvidenceBetween(process, cut - EvidenceWindow, cut),
     prior |-> EvidenceBetween(process, cut - 2 * EvidenceWindow, cut - EvidenceWindow),
     contradictions |-> Cardinality({l \in log["link"] : l.process = process /\ ~l.supports /\ l.at <= cut}),
     state |-> LatestOf(StatesOf(process, asOf)),
     capabilities |-> Cardinality({e[2] : e \in {f \in TwoHops(edges, asOf) : f[1] = process}}),
     binding |-> \E b \in CurrentRevision(log["bottleneck"], asOf) : b.process = process /\ ~Stopped(b)]

Acceleration(recent, prior) ==
    IF recent = 0 /\ prior = 0 THEN 0
    ELSE IF prior = 0 THEN Min({Unit, Unit \div 2 + (recent * Unit) \div 20})
    ELSE Min({Unit, (recent * Unit) \div (2 * prior)})

Saturating(count, at) == Min({Unit, (count * Unit) \div at})
Recency(state, cut) ==
    IF state = {} THEN 0
    ELSE LET days == Max({0, cut - (CHOOSE s \in state : TRUE).observed}) * TickDays
         IN Max({0, Unit - (days * Unit) \div 180})

Weights == [evidence_acceleration |-> 30, state_confidence |-> 20, state_recency |-> 15,
            asset_breadth |-> 15, capability_count |-> 10, novelty |-> 10]

\* How many Assets are exposed, and how new the Events are, is read without a date.
Score(facts, cut, assets, novelty) ==
    LET normalised == [evidence_acceleration |-> Acceleration(facts.recent, facts.prior),
                       state_confidence |-> IF facts.state = {} THEN 0
                                            ELSE ((CHOOSE s \in facts.state : TRUE).confidence * Unit) \div 100,
                       state_recency |-> Recency(facts.state, cut),
                       asset_breadth |-> Saturating(assets, 10),
                       capability_count |-> Saturating(facts.capabilities, 6),
                       novelty |-> Saturating(novelty, 10)]
        Contribution(name) == Weights[name] * normalised[name]
    IN Contribution("evidence_acceleration") + Contribution("state_confidence") + Contribution("state_recency")
       + Contribution("asset_breadth") + Contribution("capability_count") + Contribution("novelty")

\* _passes: the screener drops what it is not asked for, and orders the rest alike.
Passes(facts, minCapabilities, acceleratingOnly) ==
    facts.capabilities >= minCapabilities /\ (acceleratingOnly => facts.recent > facts.prior)

-----------------------------------------------------------------------------
(* A request. *)

FindsProcesses(asOf) ==
    /\ asking = {}
    /\ asking' = {[asOf |-> asOf, cut |-> CutOf(asOf), clean |-> Settled(asOf, Stamps),
                   processes |-> Subjects({}, asOf),
                   candidates |-> Candidates(asOf)]}
    /\ fed' = {}
    /\ UNCHANGED <<log, pending, changes>>

FeedOf(a) ==
    [asOf |-> a.asOf, cut |-> a.cut, clean |-> a.clean, processes |-> a.processes, candidates |-> a.candidates,
     alerts |-> Generate(a.processes, a.asOf, a.cut),
     facts |-> [p \in a.candidates |-> Facts(p, a.asOf, a.cut)]]
Feeds ==
    /\ asking # {}
    /\ fed' = {FeedOf(a) : a \in asking} /\ asking' = {}
    /\ UNCHANGED <<log, pending, changes>>

FeedStep ==
    \/ \E change \in Changes : RecordsRow(change)
    \/ CommitRow \/ ClosesCritiques
    \/ \E asOf \in {Now} \cup 1..clock : FindsProcesses(asOf)
    \/ Feeds

-----------------------------------------------------------------------------
(* Properties. *)

\* A settled moment has one feed and one ranking, but for the critiques and for
\* what is read without a date; a critique closed since is only ever missing.
PastFeedsStand ==
    \A f \in fed : f.clean =>
        /\ f.processes = Subjects({}, f.asOf)
        /\ f.alerts.dated = Generate(f.processes, f.asOf, f.cut).dated
        /\ Generate(f.processes, f.asOf, f.cut).critiques \subseteq f.alerts.critiques
        /\ f.candidates = Candidates(f.asOf)
        /\ f.facts = [p \in f.candidates |-> Facts(p, f.asOf, f.cut)]

\* What is current is one and the same, whether asked by the window or by its
\* open end (temporal.py:25-33), and is one row.
NowIsCurrent ==
    \A table \in Versioned :
        /\ CurrentRevision(log[table], Now) = {r \in log[table] : r.to = NoEnd}
        /\ \A moment \in 1..clock : \A r \in CurrentRevision(log[table], moment) :
              \A s \in CurrentRevision(log[table], moment) : r.process = s.process => r = s

\* A change is told once in a feed, and a State told to have moved has.
AlertsAreOnePerChange ==
    \A f \in fed : \A a \in f.alerts.dated : \A b \in f.alerts.dated : a.id = b.id => a = b

\* The two windows of evidence meet: what is recent now is what is prior a
\* window later, and together they are two windows, nothing twice and nothing lost.
WindowsMeet ==
    \A r \in log["process"] :
        LET facts == Facts(r.process, Now, clock)
        IN /\ Facts(r.process, Now, clock + EvidenceWindow).prior = facts.recent
           /\ facts.recent + facts.prior
                  = Cardinality({l \in log["link"] : l.process = r.process /\ l.at > clock - 2 * EvidenceWindow})

Scored(recent, prior) ==
    /\ Acceleration(recent, prior) \in 0..Unit
    /\ Acceleration(recent, prior) <= Acceleration(recent + 1, prior)
    /\ recent < prior <=> (recent + prior > 0 /\ 2 * Acceleration(recent, prior) < Unit)
    /\ Passes([recent |-> recent, prior |-> prior, capabilities |-> 0], 0, TRUE)
           <=> 2 * Acceleration(recent, prior) > Unit
Misscored == {c \in (0..6) \X (0..6) : ~Scored(c[1], c[2])}
\* More evidence never scores less, less than the window before scores below the
\* half, as nothing else does but no evidence at all, and the screener's
\* "accelerating only" keeps what scores above it (discover.py:413-426).
AccelerationTellsTheDirection == Misscored = {}

\* The components weigh no more than the whole.
ScoresFit ==
    \A f \in fed : \A p \in f.candidates : \A few \in {0, 11} :
        Score(f.facts[p], f.cut, few, few) \in 0..100 * Unit

(* A feed answers for the moment it is asked about: a settled moment has one feed
   and one ranking, the present is one row of each entity, no change is told
   twice, and the windows of evidence meet and tell its direction. *)
FeedsAnswerForTheirMoment ==
    /\ PastFeedsStand
    /\ NowIsCurrent
    /\ AlertsAreOnePerChange
    /\ WindowsMeet
    /\ AccelerationTellsTheDirection
    /\ ScoresFit
=============================================================================

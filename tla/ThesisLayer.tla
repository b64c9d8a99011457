---------------------------- MODULE ThesisLayer ----------------------------
(***************************************************************************)
(* What is held against the thesis of one Process, and how the thesis is   *)
(* scored (agents, critic_stage.py, thesis_stage.py, independence_stage.py *)
(* and the agents they ask).                                               *)
(*                                                                         *)
(* The critic runs from the work queue: two of its passes overlap only     *)
(* when one outlives its lease.  The thesis and independence stages run    *)
(* when somebody calls them, so their passes overlap freely.  An action is *)
(* a transaction; the update and the insert of one transaction are two     *)
(* actions, as its update sees no row another one has not committed.       *)
(***************************************************************************)
EXTENDS Dependence, Integers

CONSTANTS
    Event, Against,  \* the Events; those that are linked as contradicting
    DateOf(_),       \* when an Event occurs
    FirstMoment,     \* the time of the first call
    MaxEvents,       \* MAX_EVENTS of independence_stage.py
    Severity,        \* how severe a finding can be
    Assumption,      \* what a counterfactual can challenge
    Worker, Caller,
    MaxStates, MaxCritiques, MaxCalls  \* bounds: States recorded, passes begun

ASSUME ThesisAssumption ==
    /\ Event \subseteq Nat /\ Against \subseteq Event /\ Severity \subseteq Nat
    /\ \A e \in Event : DateOf(e) \in Nat
    /\ FirstMoment \in Nat /\ MaxEvents \in Nat
    /\ MaxStates \in Nat /\ MaxCritiques \in Nat /\ MaxCalls \in Nat

Computed == {"state_confidence", "accumulated_evidence", "evidence_independence",
             "contradiction", "counterfactual_robustness"}
Unavailable == {"historical_precedent"}
Axis == Computed \cup Unavailable \cup
        {"logical_coherence", "causal_coherence", "data_quality", "uncertainty"}
Judged == Axis \ (Computed \cup Unavailable)

VARIABLES
    linked,    \* the Events linked as evidence
    stateNo,   \* how many States of the Process have been recorded
    findings,  \* the critiques that are open
    stored,    \* after which State the last critique was recorded; -1: none
    cards,     \* the thesis_quality scorecards, in the order of recording
    worlds,    \* the current counterfactuals
    rows,      \* the current evidence_dependencies
    critic,    \* what each worker is doing
    call,      \* what each caller of the thesis stage is doing
    batch,     \* what each caller of the independence stage is doing
    critiques, calls,   \* passes begun
    late,      \* history: passes of the critic that began while another ran
    kills,     \* history: passes that ended after their first effect
    attacked,  \* history: the State that pass had read which stored last
    raced,     \* history: a State was recorded while a critic was at work
    emptied,   \* history: an answer of the critic without findings passed
    doubled,   \* history: two replacements of current rows overlapped
    analysis   \* history: the items and the count of the last analysis

evidenceVars == <<linked, stateNo>>
criticVars == <<findings, stored, critic, critiques, late, attacked, emptied>>
callVars == <<worlds, call>>
batchVars == <<rows, analysis, batch>>
passVars == <<calls, doubled>>
vars == <<evidenceVars, criticVars, cards, callVars, batchVars, passVars, kills, raced>>

NoCritique == [step |-> "idle", run |-> 0, saw |-> 0, dated |-> 0, answer |-> <<>>, lead |-> 0]
NoCall == [step |-> "idle", run |-> 0, seen |-> 0, basis |-> 0, axes |-> {},
           answer |-> <<>>, stale |-> {}]
NoBatch == [step |-> "idle", run |-> 0, items |-> <<>>, found |-> {}, stale |-> {}]

Init ==
    /\ \E e \in Event : linked = {e}
    /\ stateNo = 0
    /\ findings = {} /\ stored = -1
    /\ cards = <<>> /\ worlds = {} /\ rows = {}
    /\ critic = [w \in Worker |-> NoCritique]
    /\ call = [c \in Caller |-> NoCall] /\ batch = [c \in Caller |-> NoBatch]
    /\ critiques = 0 /\ calls = 0 /\ late = 0 /\ kills = 0 /\ attacked = 0
    /\ raced = FALSE /\ emptied = FALSE /\ doubled = FALSE
    /\ analysis = [items |-> {}, total |-> 0]

Supporting == linked \ Against

-----------------------------------------------------------------------------
(* What the other stages do.                                                *)

Links ==
    /\ \E e \in Event \ linked : linked' = linked \cup {e}
    /\ UNCHANGED <<stateNo, criticVars, cards, callVars, batchVars, passVars, kills, raced>>

RecordsState ==
    /\ stateNo < MaxStates
    /\ stateNo' = stateNo + 1
    /\ raced' = (raced \/ \E w \in Worker : critic[w].step # "idle")
    /\ UNCHANGED <<linked, criticVars, cards, callVars, batchVars, passVars, kills>>

-----------------------------------------------------------------------------
(* The critic.                                                              *)

\* The finder: never attacked, or a State was recorded after the last finding.
Pending == stored < stateNo

Newest == Max({DateOf(e) : e \in linked})

\* The pass reads the evidence, which dates it, and the State.
CriticStarts(w) ==
    LET others == \E v \in Worker \ {w} : critic[v].step # "idle"
    IN  /\ critic[w].step = "idle"
        /\ critiques < MaxCritiques
        /\ critiques' = critiques + 1
        /\ late' = IF others THEN late + 1 ELSE late
        /\ critic' = [critic EXCEPT ![w] = [NoCritique EXCEPT
              !.step = "asked", !.run = critiques', !.saw = stateNo, !.dated = Newest]]
        /\ UNCHANGED <<evidenceVars, findings, stored, attacked, emptied, cards, callVars,
                       batchVars, passVars, kills, raced>>

Answers == {<<>>} \cup UNION {[1..n -> Severity] : n \in 1..2}

\* The schema asks for a most damaging finding, MostDamagingEvaluator that none is
\* more severe.
LeadPasses(answer, lead) ==
    lead \in DOMAIN answer /\ \A i \in DOMAIN answer : answer[i] <= answer[lead]

\* The critic answers; an answer that fails an evaluator ends the pass (CriticEnds).
CriticAnswers(w) ==
    /\ critic[w].step = "asked"
    /\ \E answer \in Answers, lead \in 0..2 :
          /\ IF answer = <<>> THEN lead = 0 ELSE LeadPasses(answer, lead)
          /\ critic' = [critic EXCEPT ![w].step = "passed",
                                      ![w].answer = answer, ![w].lead = lead]
          /\ emptied' = (emptied \/ answer = <<>>)
    /\ UNCHANGED <<evidenceVars, findings, stored, critiques, late, attacked, cards,
                   callVars, batchVars, passVars, kills, raced>>

\* The findings of another run are addressed ...
StillOpen(run) == {f \in findings : f.run = run}

Supersedes(w) ==
    /\ critic[w].step = "passed"
    /\ findings' = StillOpen(critic[w].run)
    /\ critic' = [critic EXCEPT ![w].step = "closed"]
    /\ UNCHANGED <<evidenceVars, stored, critiques, late, attacked, emptied, cards,
                   callVars, batchVars, passVars, kills, raced>>

\* Mutant: the most damaging finding goes elsewhere.
OtherFindings(run, answer, lead) ==
    {[run |-> run, no |-> i, severity |-> answer[i], lead |-> FALSE] :
        i \in DOMAIN answer \ {lead}}

Findings(run, answer, lead) ==
    {[run |-> run, no |-> i, severity |-> answer[i], lead |-> i = lead] : i \in DOMAIN answer}

\* ... in one transaction, the new ones are stored in another ...
Stores(w) ==
    LET c == critic[w]
    IN  /\ c.step = "closed"
        /\ findings' = findings \cup Findings(c.run, c.answer, c.lead)
        /\ stored' = IF c.answer = <<>> THEN stored ELSE stateNo
        /\ attacked' = IF c.answer = <<>> THEN attacked ELSE c.saw
        /\ critic' = [critic EXCEPT ![w].step = "stored"]
        /\ UNCHANGED <<evidenceVars, critiques, late, emptied, cards, callVars, batchVars,
                       passVars, kills, raced>>

RiskCard(dated) == [by |-> "critic", observed |-> dated, basis |-> 0, seen |-> 0,
                    axes |-> {"contradiction"}, explained |-> FALSE]

\* ... and the falsification risk is recorded in a third.
RecordsRisk(w) ==
    /\ critic[w].step = "stored"
    /\ cards' = Append(cards, RiskCard(critic[w].dated))
    /\ critic' = [critic EXCEPT ![w] = NoCritique]
    /\ UNCHANGED <<evidenceVars, findings, stored, critiques, late, attacked, emptied,
                   callVars, batchVars, passVars, kills, raced>>

\* A refusal, a rejected answer, an exception or a kill.
CriticEnds(w) ==
    /\ critic[w].step # "idle"
    /\ critic' = [critic EXCEPT ![w] = NoCritique]
    /\ kills' = IF critic[w].step \in {"closed", "stored"} THEN kills + 1 ELSE kills
    /\ UNCHANGED <<evidenceVars, findings, stored, critiques, late, attacked, emptied,
                   cards, callVars, batchVars, passVars, raced>>

-----------------------------------------------------------------------------
(* The thesis stage.                                                        *)

Contradictions == {i \in DOMAIN cards : "contradiction" \in cards[i].axes}

\* Mutant: the number of the oldest scorecard.
OldestRisk == {i \in Contradictions : \A j \in Contradictions :
                  cards[j].observed >= cards[i].observed}

\* _falsification_risk takes one of the latest by the date observed.
LatestRisk == {i \in Contradictions : \A j \in Contradictions :
                  cards[j].observed <= cards[i].observed}

Moment(c) == FirstMoment + call[c].run

\* The axes that can be measured from what the pass has read.
Measured(basis) ==
    {"accumulated_evidence"}
        \cup (IF stateNo > 0 THEN {"state_confidence"} ELSE {})
        \cup (IF Supporting # {} THEN {"evidence_independence"} ELSE {})
        \cup (IF basis > 0 \/ linked \cap Against # {} THEN {"contradiction"} ELSE {})

Begins(c) ==
    /\ call[c].step = "idle" /\ batch[c].step = "idle"
    /\ calls < MaxCalls
    /\ calls' = calls + 1

\* The context is read in one session; basis is the scorecard the risk is taken from.
ThesisReads(c) ==
    /\ Begins(c)
    /\ \E basis \in IF Contradictions = {} THEN {0} ELSE LatestRisk :
          call' = [call EXCEPT ![c] = [NoCall EXCEPT !.step = "imagining", !.run = calls',
                      !.seen = Len(cards), !.basis = basis, !.axes = Measured(basis)]]
    /\ UNCHANGED <<evidenceVars, criticVars, cards, worlds, batchVars, doubled, kills, raced>>

\* A refused or a rejected set of worlds: the pass goes on without.
GoesWithout(c) ==
    /\ call[c].step = "imagining"
    /\ call' = [call EXCEPT ![c].step = "scoring"]
    /\ UNCHANGED <<evidenceVars, criticVars, cards, worlds, batchVars, passVars, kills, raced>>

\* Answers of up to two worlds, each named by the assumption it removes.
AnyWorlds == {<<>>} \cup UNION {[1..n -> Assumption] : n \in 1..2}

\* DiversityEvaluator: no two worlds challenge the same assumption.
DistinctWorlds == {a \in AnyWorlds : \A i, j \in DOMAIN a : a[i] = a[j] => i = j}

\* Another pass of the stage has read the rows it replaces, and has not committed.
Replacing(pass, kind, c) == \E d \in Caller \ {c} : pass[d].step = kind

\* The worlds pass; the update of their transaction sees the current ones ...
Imagines(c) ==
    /\ call[c].step = "imagining"
    /\ \E answer \in DistinctWorlds :
          call' = [call EXCEPT ![c].step = "replacing", ![c].answer = answer,
                               ![c].stale = worlds]
    /\ doubled' = (doubled \/ Replacing(call, "replacing", c))
    /\ UNCHANGED <<evidenceVars, criticVars, cards, worlds, batchVars, calls, kills, raced>>

Replace(current, stale, new) == (current \ stale) \cup new

\* ... and it commits.  A set without a world leaves the axis unmeasured.
ReplacesWorlds(c) ==
    LET new == {[run |-> call[c].run, no |-> i, assumption |-> call[c].answer[i]] :
                   i \in DOMAIN call[c].answer}
    IN  /\ call[c].step = "replacing"
        /\ worlds' = Replace(worlds, call[c].stale, new)
        /\ call' = [call EXCEPT ![c].step = "scoring", ![c].answer = <<>>, ![c].stale = {},
              ![c].axes = IF new = {} THEN @ ELSE @ \cup {"counterfactual_robustness"}]
        /\ UNCHANGED <<evidenceVars, criticVars, cards, batchVars, passVars, kills, raced>>

\* AxisCoverageEvaluator: every axis the agent was asked for, and no other.
CoversAxes(axes) == axes = Judged

\* The answers to tell apart: what is asked, with an axis too many, with one too few.
AxisAnswers == {Judged, Judged \cup Unavailable} \cup {Judged \ {a} : a \in Judged}

\* The agent's axes, none of them if it refuses or is rejected, join the measured ones
\* on one scorecard, dated now.
Scores(c) ==
    /\ call[c].step = "scoring"
    /\ \E axes \in {{}} \cup {a \in AxisAnswers : CoversAxes(a)} :
          cards' = Append(cards, [by |-> "thesis", observed |-> Moment(c),
              basis |-> call[c].basis, seen |-> call[c].seen,
              axes |-> axes \cup call[c].axes, explained |-> FALSE])
    /\ call' = [call EXCEPT ![c] = [NoCall EXCEPT !.step = "annotating", !.seen = Len(cards')]]
    /\ UNCHANGED <<evidenceVars, criticVars, worlds, batchVars, passVars, kills, raced>>

Explain(card) == [card EXCEPT !.explained = TRUE]

\* The rationales are written afterwards.
Annotates(c) ==
    /\ call[c].step = "annotating"
    /\ cards' = [cards EXCEPT ![call[c].seen] = Explain(@)]
    /\ call' = [call EXCEPT ![c] = NoCall]
    /\ UNCHANGED <<evidenceVars, criticVars, worlds, batchVars, passVars, kills, raced>>

\* A caller is gone; its transaction, if it has one, is rolled back.
CallEnds(c) ==
    /\ call[c].step # "idle"
    /\ kills' = IF call[c].step = "annotating" THEN kills + 1 ELSE kills
    /\ call' = [call EXCEPT ![c] = NoCall]
    /\ UNCHANGED <<evidenceVars, criticVars, cards, worlds, batchVars, passVars, raced>>

-----------------------------------------------------------------------------
(* The independence stage.                                                  *)

ByDate(a, b) == DateOf(a) < DateOf(b)

\* The items: the supporting Events, the first MaxEvents of them by date.
Items ==
    LET ordered == SetToSortSeq(Supporting, ByDate)
    IN  SubSeq(ordered, 1, Min({MaxEvents, Len(ordered)}))

\* The items are read; fewer than two end the pass at once.
AnalysisReads(c) ==
    /\ Begins(c)
    /\ Len(Items) >= 2
    /\ batch' = [batch EXCEPT ![c] = [NoBatch EXCEPT !.step = "judging", !.run = calls',
                                                     !.items = Items]]
    /\ UNCHANGED <<evidenceVars, criticVars, cards, callVars, rows, analysis, doubled, kills,
                   raced>>

\* An agent names pairs among the undecided ones (ScopeEvaluator), or none if it is not
\* asked, refuses or is rejected; the update sees the current rows ...
Judges(c) ==
    LET structural == Structural(batch[c].items)
    IN  /\ batch[c].step = "judging"
        /\ \E judged \in SUBSET Undecided(batch[c].items, structural) :
              batch' = [batch EXCEPT ![c].step = "storing",
                                     ![c].found = structural \cup judged, ![c].stale = rows]
        /\ doubled' = (doubled \/ Replacing(batch, "storing", c))
        /\ UNCHANGED <<evidenceVars, criticVars, cards, callVars, rows, analysis, calls,
                       kills, raced>>

\* ... and the transaction commits.
StoresRows(c) ==
    LET new == {[run |-> batch[c].run, pair |-> p] : p \in batch[c].found}
        items == ToSet(batch[c].items)
    IN  /\ batch[c].step = "storing"
        /\ rows' = Replace(rows, batch[c].stale, new)
        /\ analysis' = [items |-> items,
                        total |-> EffectiveSources(items, SetToSeq(batch[c].found))]
        /\ batch' = [batch EXCEPT ![c] = NoBatch]
        /\ UNCHANGED <<evidenceVars, criticVars, cards, callVars, passVars, kills, raced>>

\* A caller is gone; an open transaction is rolled back.
AnalysisEnds(c) ==
    /\ batch[c].step # "idle"
    /\ batch' = [batch EXCEPT ![c] = NoBatch]
    /\ UNCHANGED <<evidenceVars, criticVars, cards, callVars, rows, analysis, passVars, kills,
                   raced>>

Next ==
    \/ Links \/ RecordsState
    \/ \E w \in Worker :
          \/ CriticStarts(w) \/ CriticAnswers(w) \/ Supersedes(w)
          \/ Stores(w) \/ RecordsRisk(w) \/ CriticEnds(w)
    \/ \E c \in Caller :
          \/ ThesisReads(c) \/ GoesWithout(c) \/ Imagines(c) \/ ReplacesWorlds(c)
          \/ Scores(c) \/ Annotates(c) \/ CallEnds(c)
          \/ AnalysisReads(c) \/ Judges(c) \/ StoresRows(c) \/ AnalysisEnds(c)

Spec == Init /\ [][Next]_vars

-----------------------------------------------------------------------------
(* Properties.                                                              *)

CardRow == [by : {"critic", "thesis"}, observed : Nat, basis : Nat, seen : Nat,
            axes : SUBSET Axis, explained : BOOLEAN]
FindingRow == [run : Nat, no : Nat, severity : Severity, lead : BOOLEAN]
WorldRow == [run : Nat, no : Nat, assumption : Assumption]
CriticRow == [step : {"idle", "asked", "passed", "closed", "stored"}, run : Nat, saw : Nat,
              dated : Nat, answer : Seq(Severity), lead : Nat]
CallRow == [step : {"idle", "imagining", "replacing", "scoring", "annotating"}, run : Nat,
            seen : Nat, basis : Nat, axes : SUBSET Axis, answer : Seq(Assumption),
            stale : SUBSET WorldRow]

TypeOK ==
    /\ linked \subseteq Event /\ stateNo \in Nat /\ stored \in Nat \cup {-1}
    /\ findings \subseteq FindingRow /\ cards \in Seq(CardRow) /\ worlds \subseteq WorldRow
    /\ critic \in [Worker -> CriticRow]
    /\ call \in [Caller -> CallRow]
    /\ {critiques, calls, late, kills, attacked} \subseteq Nat
    /\ {raced, emptied, doubled} \subseteq BOOLEAN

\* What the independence stage keeps.
RowsOK ==
    /\ rows \subseteq [run : Nat, pair : Event \X Event]
    /\ batch \in [Caller -> [step : {"idle", "judging", "storing"}, run : Nat,
          items : Seq(Event), found : SUBSET (Event \X Event),
          stale : SUBSET [run : Nat, pair : Event \X Event]]]
    /\ analysis \in [items : SUBSET Event, total : Nat]

\* The finding the scorer and the reader lead with is the most severe of the open ones,
\* and there is one: passes replace each other in two transactions, and only passes
\* that overlap leave the findings of both open.
LeadIsMostSevere ==
    late = 0 /\ findings # {} =>
        \E f \in findings : /\ f.lead
                            /\ \A g \in findings : g.severity <= f.severity
                            /\ \A g \in findings : g.lead => g = f

\* A Process that was attacked has open findings, unless a pass is between its two
\* transactions or was killed there, or the critic answered with no finding.
AttackStands ==
    late = 0 /\ kills = 0 /\ ~emptied /\ stored >= 0 =>
        findings # {} \/ \E w \in Worker : critic[w].step = "closed"

\* The finder picks a Process whose latest State was not read by the pass that attacked
\* it last, unless the State was recorded while a critic was at work: the finder goes
\* by when findings were stored, not by what had been read.
UnattackedStateIsPending ==
    stored >= 0 /\ attacked < stateNo /\ ~raced => Pending

\* The findings of a pass go with its risk: a scorecard follows, unless the pass is
\* about to write it or was killed before it could.
RiskFollowsFindings ==
    stored >= 0 /\ kills = 0 /\ (\A w \in Worker : critic[w].step # "stored") =>
        \E i \in Contradictions : cards[i].by = "critic"

\* Until the thesis stage has scored the axis itself, the risk it takes is the one the
\* critic recorded last, unless two of the critic's numbers were of one date.
RiskIsTheLastCritics ==
    \A i \in DOMAIN cards :
        LET read == {j \in 1..cards[i].seen : "contradiction" \in cards[j].axes}
        IN  /\ cards[i].by = "thesis" /\ late = 0
            /\ \A j \in read : cards[j].by = "critic"
            /\ \A j, k \in read : cards[j].observed = cards[k].observed => j = k
            => \A j \in read : j <= cards[i].basis

\* The current counterfactuals are of one pass and challenge different assumptions, so
\* that none counts twice, unless two replacements overlapped.
WorldsAreOneSet ==
    ~doubled => \A v, w \in worlds : v.run = w.run /\ (v.assumption = w.assumption => v = w)

\* Code and agent never score one axis both, and nobody scores what has no history yet.
OneProducerPerAxis ==
    \A i \in DOMAIN cards :
        /\ cards[i].axes \cap Unavailable = {}
        /\ "counterfactual_robustness" \in cards[i].axes => cards[i].by = "thesis"
        /\ "logical_coherence" \in cards[i].axes => Judged \subseteq cards[i].axes

\* A scorecard of the thesis stage has its rationales, unless its pass is about to
\* write them or ended (killed, or by an exception) before it could.
UnexplainedCostsAKill ==
    kills = 0 =>
        \A i \in DOMAIN cards : cards[i].by = "thesis" =>
            \/ cards[i].explained
            \/ \E c \in Caller : call[c].step = "annotating" /\ call[c].seen = i

\* Whatever order the rows are read in, the union-find gives the connected components,
\* and the count lies between that of the best supported Event and the plain sum.
SourcesAreComponents ==
    \A order \in SetToSeqs({r.pair : r \in rows}) :
        /\ Groups(Supporting, order) = Components(Supporting, {r.pair : r \in rows})
        /\ EffectiveSources(Supporting, order) <= NaiveSources(Supporting)
        /\ \A e \in Supporting : EffectiveSources(Supporting, order) >= Sources(e)

\* What the thesis stage counts from the stored rows is what the last analysis counted,
\* as long as no Event was linked since; with no rows it takes the plain sum.
ReadSources ==
    IF rows = {} THEN NaiveSources(Supporting)
    ELSE EffectiveSources(Supporting, SetToSeq({r.pair : r \in rows}))
CountIsTheAnalysis ==
    analysis.items = Supporting /\ ~doubled => ReadSources = analysis.total

\* thesis_stage.py:512, "the Critic's own number, not a re-judgement of it".
RiskIsTheCritics ==
    \A i \in DOMAIN cards : cards[i].basis > 0 => cards[cards[i].basis].by = "critic"

(* A thesis that was attacked stays attacked: findings stand with their most
   severe in the lead, and a state nobody attacked is pending. *)
CritiqueStands ==
    /\ TypeOK
    /\ LeadIsMostSevere
    /\ AttackStands
    /\ UnattackedStateIsPending

(* The score cards say what the Critic said: the contradiction axis follows the
   findings and is the last Critic's, each axis has its one producer, and a card
   without an explanation costs a kill. *)
ScoresFollowTheCritic ==
    /\ RiskFollowsFindings
    /\ RiskIsTheLastCritics
    /\ OneProducerPerAxis
    /\ UnexplainedCostsAKill

(* The evidence behind a thesis is counted as one analysis: the stored worlds are
   one set, sources are the components of the dependence graph, and the count read
   back is the analysis's. *)
WorldsAreIndependent ==
    /\ RowsOK
    /\ WorldsAreOneSet
    /\ SourcesAreComponents
    /\ CountIsTheAnalysis
=============================================================================

------------------------- MODULE ThesisLayerProofs -------------------------
(***************************************************************************)
(* Proofs about ThesisLayer, for every number of critics, callers, Events  *)
(* and passes: what was attacked stays attacked, the scorecards follow the *)
(* critic, and the counterfactuals are of one pass, up to the              *)
(* irregularities each property names.                                     *)
(***************************************************************************)
EXTENDS ThesisLayer, SequenceTheorems, TLAPS

AtWork(w) == critic[w].step # "idle"

\* One of the linked Events is the newest.
HasNewest == \E m \in linked : \A e \in linked : DateOf(e) <= DateOf(m)

\* Without an overlap the pass at work is the one begun last, and it closes what
\* others left open before it stores.
CriticsAlone ==
    late = 0 =>
        /\ \A v, w \in Worker : AtWork(v) /\ AtWork(w) => v = w
        /\ \A w \in Worker : AtWork(w) => critic[w].run = critiques
        /\ \A f \in findings : f.run <= critiques
        /\ \A w \in Worker : critic[w].step \in {"asked", "passed"} =>
              \A f \in findings : f.run < critiques
        /\ \A w \in Worker : critic[w].step = "closed" => findings = {}

\* What has passed is led by its worst finding, and is empty only if that was noted.
AnswersPassed ==
    \A w \in Worker : critic[w].step \in {"passed", "closed"} =>
        /\ critic[w].answer = <<>> \/ LeadPasses(critic[w].answer, critic[w].lead)
        /\ ~emptied => critic[w].answer # <<>>

\* A State that no critic worked across was read by the pass that stored after it.
StatesWereRead ==
    ~raced =>
        /\ \A w \in Worker : AtWork(w) => critic[w].saw = stateNo
        /\ stored >= 0 => attacked = stored

DatedBy(events, n) == \E e \in events : n <= DateOf(e)

ByCritic(table) == {i \in DOMAIN table : table[i].by = "critic"}

\* Critics date their numbers by the evidence, and single passes in its order.
RisksAreDated ==
    /\ \A i \in ByCritic(cards) : DatedBy(linked, cards[i].observed)
    /\ \A w \in Worker : AtWork(w) => DatedBy(linked, critic[w].dated)
    /\ late = 0 =>
        /\ \A i, j \in ByCritic(cards) : i <= j => cards[i].observed <= cards[j].observed
        /\ \A w \in Worker : AtWork(w) =>
              \A i \in ByCritic(cards) : cards[i].observed <= critic[w].dated

Scored(table, i) == "contradiction" \in table[i].axes

\* basis is what was latest of the first scorecards, or there was none to read.
LatestOf(table, basis, seen) ==
    /\ seen <= Len(table)
    /\ IF basis = 0
       THEN \A j \in 1..seen : ~Scored(table, j)
       ELSE /\ basis \in 1..seen /\ Scored(table, basis)
            /\ \A j \in 1..seen : Scored(table, j) => table[j].observed <= table[basis].observed

BasisWasLatest ==
    /\ \A i \in DOMAIN cards : cards[i].by = "thesis" =>
          LatestOf(cards, cards[i].basis, cards[i].seen)
    /\ \A c \in Caller : call[c].step \in {"imagining", "replacing", "scoring"} =>
          LatestOf(cards, call[c].basis, call[c].seen)

\* A pass measures what code computes, and annotates a scorecard there is.
CallsMeasure ==
    \A c \in Caller :
        /\ call[c].axes \subseteq Computed
        /\ call[c].step = "annotating" => call[c].seen \in DOMAIN cards

DistinctAnswer(answer) == \A i, j \in DOMAIN answer : answer[i] = answer[j] => i = j

\* A pass that replaces alone replaces all there is, by worlds that differ.
ReplacedAlone ==
    /\ \A c \in Caller : DistinctAnswer(call[c].answer)
    /\ ~doubled =>
        /\ \A c, d \in Caller : call[c].step = "replacing" /\ call[d].step = "replacing" => c = d
        /\ \A c \in Caller : call[c].step = "replacing" => call[c].stale = worlds

CriticInv == CriticsAlone /\ AnswersPassed /\ LeadIsMostSevere /\ AttackStands
StateInv  == StatesWereRead
RiskInv   == RisksAreDated /\ BasisWasLatest /\ RiskFollowsFindings
CardInv   == CallsMeasure /\ OneProducerPerAxis /\ UnexplainedCostsAKill
WorldInv  == ReplacedAlone /\ WorldsAreOneSet
IInv == TypeOK /\ HasNewest /\ CriticInv /\ StateInv /\ RiskInv /\ CardInv /\ WorldInv

-----------------------------------------------------------------------------
(* Steps.                                                                  *)

CriticStep(w) ==
    \/ CriticStarts(w) \/ CriticAnswers(w) \/ Supersedes(w)
    \/ Stores(w) \/ RecordsRisk(w) \/ CriticEnds(w)
CallStep(c) ==
    \/ ThesisReads(c) \/ GoesWithout(c) \/ Imagines(c) \/ ReplacesWorlds(c)
    \/ Scores(c) \/ Annotates(c) \/ CallEnds(c)
BatchStep(c) == AnalysisReads(c) \/ Judges(c) \/ StoresRows(c) \/ AnalysisEnds(c)

\* What the passes of the independence stage leave alone.
thesisVars == <<evidenceVars, criticVars, cards, callVars, kills, raced>>

\* A step is one of a stage, or a stutter.
LEMMA NextCases ==
    ASSUME [Next]_vars
    PROVE  \/ Links \/ RecordsState
           \/ \E w \in Worker : CriticStep(w)
           \/ \E c \in Caller : CallStep(c)
           \/ \E c \in Caller : BatchStep(c)
           \/ UNCHANGED vars
  BY Zenon DEF Next, CriticStep, CallStep, BatchStep

\* The independence stage counts its passes, and notes when two replacements overlap.
LEMMA BatchKeeps ==
    ASSUME TypeOK, NEW c \in Caller, BatchStep(c)
    PROVE  /\ UNCHANGED thesisVars
           /\ calls' \in Nat /\ doubled' \in BOOLEAN
           /\ ~doubled' => ~doubled
  <1> USE DEF thesisVars, passVars
  <1>0. calls \in Nat /\ doubled \in BOOLEAN
    BY DEF TypeOK
  <1>1. CASE AnalysisReads(c)
    BY <1>0, <1>1 DEF AnalysisReads, Begins
  <1>2. CASE Judges(c)
    BY <1>0, <1>2 DEF Judges
  <1>3. CASE StoresRows(c)
    BY <1>0, <1>3 DEF StoresRows
  <1>4. CASE AnalysisEnds(c)
    BY <1>0, <1>4 DEF AnalysisEnds
  <1> QED
    BY <1>1, <1>2, <1>3, <1>4 DEF BatchStep

-----------------------------------------------------------------------------
(* Types.                                                                  *)

LEMMA CriticFacts ==
    ASSUME TypeOK, NEW w \in Worker
    PROVE  /\ critic[w] \in CriticRow
           /\ critic[w].run \in Nat /\ critic[w].saw \in Nat /\ critic[w].dated \in Nat
           /\ critic[w].lead \in Nat /\ critic[w].answer \in Seq(Severity)
  BY DEF TypeOK, CriticRow

LEMMA CallFacts ==
    ASSUME TypeOK, NEW c \in Caller
    PROVE  /\ call[c] \in CallRow
           /\ call[c].run \in Nat /\ call[c].seen \in Nat /\ call[c].basis \in Nat
           /\ call[c].axes \subseteq Axis /\ call[c].answer \in Seq(Assumption)
           /\ call[c].stale \subseteq WorldRow
  BY DEF TypeOK, CallRow

LEMMA CardFacts ==
    ASSUME TypeOK
    PROVE  /\ Len(cards) \in Nat /\ DOMAIN cards = 1..Len(cards)
           /\ \A i \in DOMAIN cards :
                 /\ cards[i] \in CardRow
                 /\ cards[i].observed \in Nat /\ cards[i].basis \in Nat
                 /\ cards[i].seen \in Nat /\ cards[i].axes \subseteq Axis
  <1>1. cards \in Seq(CardRow)
    BY DEF TypeOK
  <1>2. /\ Len(cards) \in Nat /\ DOMAIN cards = 1..Len(cards)
        /\ \A i \in DOMAIN cards : cards[i] \in CardRow
    BY <1>1
  <1>3. \A card \in CardRow : /\ card.observed \in Nat /\ card.basis \in Nat
                              /\ card.seen \in Nat /\ card.axes \subseteq Axis
    BY DEF CardRow
  <1> QED
    BY <1>2, <1>3

\* The newest date is that of a linked Event.
LEMMA NewestFact ==
    ASSUME TypeOK, HasNewest
    PROVE  /\ Newest \in Nat
           /\ \E m \in linked : Newest = DateOf(m)
           /\ \A e \in linked : DateOf(e) <= Newest
  <1> DEFINE dates == {DateOf(e) : e \in linked}
  <1>1. \A e \in linked : DateOf(e) \in Nat
    BY ThesisAssumption DEF TypeOK
  <1>2. \E n \in dates : \A k \in dates : n >= k
    BY <1>1 DEF HasNewest
  <1>3. Newest \in dates /\ \A k \in dates : Newest >= k
    BY <1>2 DEF Newest, Max
  <1> QED
    BY <1>1, <1>3

\* Answers are sequences.
LEMMA AnswersAreSequences ==
    /\ Answers \subseteq Seq(Severity)
    /\ DistinctWorlds \subseteq Seq(Assumption)
  <1>1. ASSUME NEW S
        PROVE  {<<>>} \cup UNION {[1..n -> S] : n \in 1..2} \subseteq Seq(S)
    <2>1. <<>> \in Seq(S)
      OBVIOUS
    <2>2. 1 \in Nat /\ 2 \in Nat /\ \A n \in 1..2 : n \in Nat
      OBVIOUS
    <2>3. UNION {[1..n -> S] : n \in 1..2} \subseteq UNION {[1..n -> S] : n \in Nat}
      BY <2>2, Zenon
    <2> QED
      BY <2>1, <2>3, SeqDef, Zenon
  <1> QED
    BY <1>1, Zenon DEF Answers, DistinctWorlds, AnyWorlds

\* A scorecard that is added, or explained, leaves what the others say.
Keeps(old, new) ==
    /\ Len(old) <= Len(new)
    /\ \A i \in DOMAIN old :
          /\ new[i].by = old[i].by /\ new[i].observed = old[i].observed
          /\ new[i].basis = old[i].basis /\ new[i].seen = old[i].seen
          /\ new[i].axes = old[i].axes
          /\ old[i].explained => new[i].explained

LEMMA RiskCardType == ASSUME NEW n \in Nat PROVE RiskCard(n) \in CardRow
  BY DEF RiskCard, CardRow, Axis, Computed

LEMMA MeasuredFact == ASSUME NEW basis PROVE Measured(basis) \subseteq Computed
  BY DEF Measured, Computed

LEMMA IdleRows == NoCritique \in CriticRow /\ NoCall \in CallRow
  BY DEF NoCritique, CriticRow, NoCall, CallRow

LEMMA AskedRow ==
    ASSUME NEW run \in Nat, NEW saw \in Nat, NEW dated \in Nat
    PROVE  [NoCritique EXCEPT !.step = "asked", !.run = run, !.saw = saw, !.dated = dated]
              \in CriticRow
  <1>1. ASSUME NEW row \in CriticRow
        PROVE  [row EXCEPT !.step = "asked", !.run = run, !.saw = saw, !.dated = dated]
                 \in CriticRow
    BY DEF CriticRow
  <1> QED
    BY <1>1, IdleRows, Zenon

LEMMA BegunRow ==
    ASSUME NEW run \in Nat, NEW seen \in Nat, NEW basis \in Nat, NEW axes \in SUBSET Axis
    PROVE  [NoCall EXCEPT !.step = "imagining", !.run = run, !.seen = seen, !.basis = basis,
                          !.axes = axes] \in CallRow
  <1>1. ASSUME NEW row \in CallRow
        PROVE  [row EXCEPT !.step = "imagining", !.run = run, !.seen = seen,
                           !.basis = basis, !.axes = axes] \in CallRow
    BY DEF CallRow
  <1> QED
    BY <1>1, IdleRows, Zenon

LEMMA ScoredRow ==
    ASSUME NEW seen \in Nat
    PROVE  [NoCall EXCEPT !.step = "annotating", !.seen = seen] \in CallRow
  <1>1. ASSUME NEW row \in CallRow
        PROVE  [row EXCEPT !.step = "annotating", !.seen = seen] \in CallRow
    BY DEF CallRow
  <1> QED
    BY <1>1, IdleRows, Zenon

LEMMA ExplainedRow == ASSUME NEW card \in CardRow PROVE Explain(card) \in CardRow
  BY DEF Explain, CardRow

LEMMA FindingsAreRows ==
    ASSUME NEW run \in Nat, NEW answer \in Seq(Severity), NEW lead \in Nat
    PROVE  Findings(run, answer, lead) \subseteq FindingRow
  <1> SUFFICES ASSUME NEW f \in Findings(run, answer, lead) PROVE f \in FindingRow
    OBVIOUS
  <1>1. PICK i \in DOMAIN answer :
          f = [run |-> run, no |-> i, severity |-> answer[i], lead |-> i = lead]
    BY DEF Findings
  <1>2. PICK b \in BOOLEAN : f = [run |-> run, no |-> i, severity |-> answer[i], lead |-> b]
    BY <1>1, Zenon
  <1>3. i \in Nat /\ answer[i] \in Severity
    OBVIOUS
  <1> QED
    BY <1>2, <1>3 DEF FindingRow

LEMMA InitType == Init => TypeOK
  <1> SUFFICES ASSUME Init PROVE TypeOK
    OBVIOUS
  <1>1. /\ linked \subseteq Event /\ stateNo \in Nat /\ stored \in Nat \cup {-1}
        /\ findings \subseteq FindingRow /\ cards \in Seq(CardRow) /\ worlds \subseteq WorldRow
        /\ {critiques, calls, late, kills, attacked} \subseteq Nat
        /\ {raced, emptied, doubled} \subseteq BOOLEAN
    <2>1. linked \subseteq Event /\ findings \subseteq FindingRow /\ worlds \subseteq WorldRow
      BY DEF Init
    <2>2. stateNo \in Nat /\ stored \in Nat \cup {-1}
      BY DEF Init
    <2>3. cards \in Seq(CardRow)
      BY DEF Init
    <2>4. critiques = 0 /\ calls = 0 /\ late = 0 /\ kills = 0 /\ attacked = 0
      BY DEF Init
    <2>5. ~raced /\ raced \in BOOLEAN /\ emptied \in BOOLEAN /\ doubled \in BOOLEAN
      BY DEF Init
    <2> QED
      BY <2>1, <2>2, <2>3, <2>4, <2>5
  <1>2. critic \in [Worker -> CriticRow] /\ call \in [Caller -> CallRow]
    BY IdleRows DEF Init
  <1> QED
    BY <1>1, <1>2 DEF TypeOK

LEMMA CriticStepType ==
    ASSUME TypeOK, HasNewest, NEW w \in Worker, CriticStep(w)
    PROVE  TypeOK'
  <1> USE DEF evidenceVars, criticVars, callVars, passVars
  <1>0. /\ critic \in [Worker -> CriticRow] /\ cards \in Seq(CardRow)
        /\ critiques \in Nat /\ late \in Nat /\ kills \in Nat /\ attacked \in Nat
        /\ stateNo \in Nat /\ emptied \in BOOLEAN /\ findings \subseteq FindingRow
    BY DEF TypeOK
  <1>1. CASE CriticStarts(w)
    <2>1. critiques' \in Nat /\ late' \in Nat
      BY <1>0, <1>1 DEF CriticStarts
    <2>2. [NoCritique EXCEPT !.step = "asked", !.run = critiques', !.saw = stateNo,
                             !.dated = Newest] \in CriticRow
      BY <1>0, <2>1, NewestFact, AskedRow
    <2>3. critic' \in [Worker -> CriticRow]
      BY <1>0, <1>1, <2>2 DEF CriticStarts
    <2> QED
      BY <1>1, <2>1, <2>3 DEF CriticStarts, TypeOK
  <1>2. CASE CriticAnswers(w)
    <2>1. PICK answer \in Answers, lead \in 0..2 :
            critic' = [critic EXCEPT ![w].step = "passed", ![w].answer = answer,
                                     ![w].lead = lead]
      BY <1>2 DEF CriticAnswers
    <2>2. critic[w] \in CriticRow /\ answer \in Seq(Severity) /\ lead \in Nat
      BY <1>0, AnswersAreSequences
    <2>3. [critic[w] EXCEPT !.step = "passed", !.answer = answer, !.lead = lead] \in CriticRow
      BY <2>2 DEF CriticRow
    <2>4. critic' = [critic EXCEPT ![w] = [critic[w] EXCEPT !.step = "passed",
                                             !.answer = answer, !.lead = lead]]
      BY <1>0, <2>1
    <2>5. critic' \in [Worker -> CriticRow]
      BY <1>0, <2>3, <2>4
    <2>6. emptied' \in BOOLEAN
      BY <1>0, <1>2 DEF CriticAnswers
    <2> QED
      BY <1>2, <2>5, <2>6 DEF CriticAnswers, TypeOK
  <1>3. CASE Supersedes(w)
    <2>1. critic' \in [Worker -> CriticRow]
      BY <1>0, <1>3 DEF Supersedes, CriticRow
    <2>2. findings' \subseteq FindingRow
      BY <1>0, <1>3 DEF Supersedes, StillOpen
    <2> QED
      BY <1>3, <2>1, <2>2 DEF Supersedes, TypeOK
  <1>4. CASE Stores(w)
    <2>1. critic' \in [Worker -> CriticRow]
      BY <1>0, <1>4 DEF Stores, CriticRow
    <2>2. Findings(critic[w].run, critic[w].answer, critic[w].lead) \subseteq FindingRow
      BY CriticFacts, FindingsAreRows
    <2>3. stored' \in Nat \cup {-1} /\ attacked' \in Nat
      BY <1>0, <1>4, CriticFacts DEF Stores, TypeOK
    <2> QED
      BY <1>0, <1>4, <2>1, <2>2, <2>3 DEF Stores, TypeOK
  <1>5. CASE RecordsRisk(w)
    <2>1. critic' \in [Worker -> CriticRow]
      BY <1>0, <1>5, IdleRows DEF RecordsRisk
    <2>2. cards' \in Seq(CardRow)
      BY <1>0, <1>5, CriticFacts, RiskCardType, AppendProperties DEF RecordsRisk
    <2> QED
      BY <1>5, <2>1, <2>2 DEF RecordsRisk, TypeOK
  <1>6. CASE CriticEnds(w)
    <2>1. critic' \in [Worker -> CriticRow]
      BY <1>0, <1>6, IdleRows DEF CriticEnds
    <2>2. kills' \in Nat
      BY <1>0, <1>6 DEF CriticEnds
    <2> QED
      BY <1>6, <2>1, <2>2 DEF CriticEnds, TypeOK
  <1> QED
    BY <1>1, <1>2, <1>3, <1>4, <1>5, <1>6 DEF CriticStep

\* The scorecard that a pass of the thesis stage adds.
ThesisCard(c, axes) ==
    [by |-> "thesis", observed |-> Moment(c), basis |-> call[c].basis,
     seen |-> call[c].seen, axes |-> axes \cup call[c].axes, explained |-> FALSE]

\* An agent's answer that joins the measured axes is whole, or there is none.
LEMMA ScoresFact ==
    ASSUME TypeOK, NEW c \in Caller, Scores(c)
    PROVE  \E axes \in {{}, Judged} : cards' = Append(cards, ThesisCard(c, axes))
  BY Zenon DEF Scores, ThesisCard, CoversAxes, AxisAnswers

LEMMA ThesisCardType ==
    ASSUME TypeOK, NEW c \in Caller, NEW axes \in {{}, Judged}
    PROVE  ThesisCard(c, axes) \in CardRow
  <1>1. axes \cup call[c].axes \in SUBSET Axis
    BY CallFacts DEF Judged
  <1>2. Moment(c) \in Nat
    BY CallFacts, ThesisAssumption DEF Moment
  <1> QED
    BY <1>1, <1>2, CallFacts DEF ThesisCard, CardRow

LEMMA CallStepType ==
    ASSUME TypeOK, NEW c \in Caller, CallStep(c)
    PROVE  TypeOK'
  <1> USE DEF evidenceVars, criticVars, callVars, passVars
  <1>0. /\ call \in [Caller -> CallRow] /\ cards \in Seq(CardRow) /\ Len(cards) \in Nat
        /\ calls \in Nat /\ kills \in Nat /\ doubled \in BOOLEAN /\ worlds \subseteq WorldRow
    BY DEF TypeOK
  <1>1. CASE ThesisReads(c)
    <2>1. calls' \in Nat
      BY <1>0, <1>1 DEF ThesisReads, Begins
    <2>2. PICK basis \in IF Contradictions = {} THEN {0} ELSE LatestRisk :
            call' = [call EXCEPT ![c] = [NoCall EXCEPT !.step = "imagining", !.run = calls',
                        !.seen = Len(cards), !.basis = basis, !.axes = Measured(basis)]]
      BY <1>1 DEF ThesisReads
    <2>3. basis \in Nat
      BY CardFacts DEF LatestRisk, Contradictions
    <2>4. Measured(basis) \in SUBSET Axis
      BY MeasuredFact DEF Axis
    <2>5. [NoCall EXCEPT !.step = "imagining", !.run = calls', !.seen = Len(cards),
                         !.basis = basis, !.axes = Measured(basis)] \in CallRow
      BY <1>0, <2>1, <2>3, <2>4, BegunRow
    <2>6. call' \in [Caller -> CallRow]
      BY <1>0, <2>2, <2>5
    <2> QED
      BY <1>1, <2>1, <2>6 DEF ThesisReads, TypeOK
  <1>2. CASE GoesWithout(c)
    <2>1. call' \in [Caller -> CallRow]
      BY <1>0, <1>2 DEF GoesWithout, CallRow
    <2> QED
      BY <1>2, <2>1 DEF GoesWithout, TypeOK
  <1>3. CASE Imagines(c)
    <2>1. PICK answer \in DistinctWorlds :
            call' = [call EXCEPT ![c].step = "replacing", ![c].answer = answer,
                                 ![c].stale = worlds]
      BY <1>3 DEF Imagines
    <2>2. call[c] \in CallRow /\ answer \in Seq(Assumption) /\ worlds \in SUBSET WorldRow
      BY <1>0, AnswersAreSequences
    <2>3. [call[c] EXCEPT !.step = "replacing", !.answer = answer, !.stale = worlds] \in CallRow
      BY <2>2 DEF CallRow
    <2>4. call' = [call EXCEPT ![c] = [call[c] EXCEPT !.step = "replacing", !.answer = answer,
                                                      !.stale = worlds]]
      BY <1>0, <2>1
    <2>5. call' \in [Caller -> CallRow]
      BY <1>0, <2>3, <2>4
    <2>6. doubled' \in BOOLEAN
      BY <1>0, <1>3 DEF Imagines
    <2> QED
      BY <1>3, <2>5, <2>6 DEF Imagines, TypeOK
  <1>4. CASE ReplacesWorlds(c)
    <2> DEFINE new == {[run |-> call[c].run, no |-> i, assumption |-> call[c].answer[i]] :
                          i \in DOMAIN call[c].answer}
    <2>1. new \subseteq WorldRow
      BY CallFacts DEF WorldRow
    <2>2. worlds' \subseteq WorldRow
      BY <1>0, <1>4, <2>1 DEF ReplacesWorlds, Replace
    <2>3. PICK axes \in SUBSET Axis :
            call' = [call EXCEPT ![c].step = "scoring", ![c].answer = <<>>, ![c].stale = {},
                                 ![c].axes = axes]
      <3>1. call[c].axes \in SUBSET Axis
              /\ call[c].axes \cup {"counterfactual_robustness"} \in SUBSET Axis
        BY CallFacts DEF Axis, Computed
      <3>2. call' = [call EXCEPT ![c].step = "scoring", ![c].answer = <<>>, ![c].stale = {},
              ![c].axes = IF new = {} THEN call[c].axes
                          ELSE call[c].axes \cup {"counterfactual_robustness"}]
        BY <1>0, <1>4 DEF ReplacesWorlds
      <3> QED
        BY <3>1, <3>2
    <2>4. [call[c] EXCEPT !.step = "scoring", !.answer = <<>>, !.stale = {}, !.axes = axes]
            \in CallRow
      <3>1. call[c] \in CallRow /\ <<>> \in Seq(Assumption) /\ {} \in SUBSET WorldRow
        BY <1>0
      <3> QED
        BY <3>1 DEF CallRow
    <2>5. call' = [call EXCEPT ![c] = [call[c] EXCEPT !.step = "scoring", !.answer = <<>>,
                                                      !.stale = {}, !.axes = axes]]
      BY <1>0, <2>3
    <2>6. call' \in [Caller -> CallRow]
      BY <1>0, <2>4, <2>5
    <2> QED
      BY <1>4, <2>2, <2>6 DEF ReplacesWorlds, TypeOK
  <1>5. CASE Scores(c)
    <2>1. cards' \in Seq(CardRow) /\ Len(cards') \in Nat
      BY <1>0, <1>5, ScoresFact, ThesisCardType, AppendProperties
    <2>2. [NoCall EXCEPT !.step = "annotating", !.seen = Len(cards')] \in CallRow
      BY <2>1, ScoredRow
    <2>3. call' \in [Caller -> CallRow]
      BY <1>0, <1>5, <2>2 DEF Scores
    <2> QED
      BY <1>5, <2>1, <2>3 DEF Scores, TypeOK
  <1>6. CASE Annotates(c)
    <2>1. call' \in [Caller -> CallRow]
      BY <1>0, <1>6, IdleRows DEF Annotates
    <2>2. /\ DOMAIN cards = 1..Len(cards)
          /\ \A i \in 1..Len(cards) : cards[i] \in CardRow /\ Explain(cards[i]) \in CardRow
      BY CardFacts, ExplainedRow
    <2>3. cards' = [i \in 1..Len(cards) |->
                      IF i = call[c].seen THEN Explain(cards[i]) ELSE cards[i]]
      BY <1>6, <2>2 DEF Annotates
    <2>4. cards' \in [1..Len(cards) -> CardRow]
      BY <2>2, <2>3
    <2>5. cards' \in Seq(CardRow)
      BY <1>0, <2>4, SeqDef, Zenon
    <2> QED
      BY <1>6, <2>1, <2>5 DEF Annotates, TypeOK
  <1>7. CASE CallEnds(c)
    <2>1. call' \in [Caller -> CallRow] /\ kills' \in Nat
      BY <1>0, <1>7, IdleRows DEF CallEnds
    <2> QED
      BY <1>7, <2>1 DEF CallEnds, TypeOK
  <1> QED
    BY <1>1, <1>2, <1>3, <1>4, <1>5, <1>6, <1>7 DEF CallStep

LEMMA TypeStep == TypeOK /\ HasNewest /\ [Next]_vars => TypeOK'
  <1> SUFFICES ASSUME TypeOK, HasNewest, [Next]_vars PROVE TypeOK'
    OBVIOUS
  <1> USE DEF criticVars, callVars, passVars
  <1>1. CASE Links
    BY <1>1 DEF Links, TypeOK
  <1>2. CASE RecordsState
    BY <1>2 DEF RecordsState, TypeOK
  <1>3. CASE \E w \in Worker : CriticStep(w)
    BY <1>3, CriticStepType
  <1>4. CASE \E c \in Caller : CallStep(c)
    BY <1>4, CallStepType
  <1>5. CASE \E c \in Caller : BatchStep(c)
    BY <1>5, BatchKeeps DEF thesisVars, evidenceVars, TypeOK
  <1>6. CASE UNCHANGED vars
    BY <1>6 DEF vars, evidenceVars, TypeOK
  <1> QED
    BY <1>1, <1>2, <1>3, <1>4, <1>5, <1>6, NextCases

-----------------------------------------------------------------------------
(* What a step of a stage leaves alone.                                    *)

LEMMA CriticFrame ==
    ASSUME TypeOK, NEW w \in Worker, CriticStep(w)
    PROVE  /\ UNCHANGED <<linked, stateNo, worlds, call, calls, doubled, raced>>
           /\ late' = 0 => late = 0
           /\ kills' = 0 => kills = 0
           /\ ~emptied' => ~emptied
           /\ \A v \in Worker \ {w} : critic'[v] = critic[v]
  <1> USE DEF evidenceVars, callVars, passVars
  <1>0. /\ critic \in [Worker -> CriticRow]
        /\ late \in Nat /\ kills \in Nat /\ emptied \in BOOLEAN
    BY DEF TypeOK
  <1>1. CASE CriticStarts(w)
    BY <1>0, <1>1 DEF CriticStarts
  <1>2. CASE CriticAnswers(w)
    BY <1>0, <1>2 DEF CriticAnswers
  <1>3. CASE Supersedes(w)
    BY <1>0, <1>3 DEF Supersedes
  <1>4. CASE Stores(w)
    BY <1>0, <1>4 DEF Stores
  <1>5. CASE RecordsRisk(w)
    BY <1>0, <1>5 DEF RecordsRisk
  <1>6. CASE CriticEnds(w)
    BY <1>0, <1>6 DEF CriticEnds
  <1> QED
    BY <1>1, <1>2, <1>3, <1>4, <1>5, <1>6 DEF CriticStep

LEMMA CallFrame ==
    ASSUME TypeOK, NEW c \in Caller, CallStep(c)
    PROVE  /\ UNCHANGED <<linked, stateNo, raced, criticVars>>
           /\ kills' = 0 => kills = 0
           /\ ~doubled' => ~doubled
           /\ \A d \in Caller \ {c} : call'[d] = call[d]
  <1> USE DEF evidenceVars, callVars, passVars
  <1>0. call \in [Caller -> CallRow] /\ kills \in Nat /\ doubled \in BOOLEAN
    BY DEF TypeOK
  <1>1. CASE ThesisReads(c)
    BY <1>0, <1>1 DEF ThesisReads
  <1>2. CASE GoesWithout(c)
    BY <1>0, <1>2 DEF GoesWithout
  <1>3. CASE Imagines(c)
    BY <1>0, <1>3 DEF Imagines
  <1>4. CASE ReplacesWorlds(c)
    BY <1>0, <1>4 DEF ReplacesWorlds
  <1>5. CASE Scores(c)
    BY <1>0, <1>5 DEF Scores
  <1>6. CASE Annotates(c)
    BY <1>0, <1>6 DEF Annotates
  <1>7. CASE CallEnds(c)
    BY <1>0, <1>7 DEF CallEnds
  <1> QED
    BY <1>1, <1>2, <1>3, <1>4, <1>5, <1>6, <1>7 DEF CallStep

\* A step of the critics, or one that leaves them alone.
LEMMA CriticOrNot ==
    ASSUME TypeOK, [Next]_vars
    PROVE  \/ \E w \in Worker : CriticStep(w)
           \/ UNCHANGED criticVars /\ (kills' = 0 => kills = 0)
  <1> USE DEF criticVars
  <1>1. CASE Links
    BY <1>1 DEF Links
  <1>2. CASE RecordsState
    BY <1>2 DEF RecordsState
  <1>3. CASE \E c \in Caller : CallStep(c)
    BY <1>3, CallFrame
  <1>4. CASE \E c \in Caller : BatchStep(c)
    BY <1>4, BatchKeeps DEF thesisVars
  <1>5. CASE UNCHANGED vars
    BY <1>5 DEF vars
  <1> QED
    BY <1>1, <1>2, <1>3, <1>4, <1>5, NextCases

\* A step of the thesis stage, or one that leaves it alone.
LEMMA CallOrNot ==
    ASSUME TypeOK, [Next]_vars
    PROVE  \/ \E c \in Caller : CallStep(c)
           \/ UNCHANGED callVars /\ (kills' = 0 => kills = 0) /\ (~doubled' => ~doubled)
  <1> USE DEF callVars, passVars
  <1>1. CASE Links
    BY <1>1 DEF Links
  <1>2. CASE RecordsState
    BY <1>2 DEF RecordsState
  <1>3. CASE \E w \in Worker : CriticStep(w)
    BY <1>3, CriticFrame
  <1>4. CASE \E c \in Caller : BatchStep(c)
    BY <1>4, BatchKeeps DEF thesisVars
  <1>5. CASE UNCHANGED vars
    BY <1>5 DEF vars
  <1> QED
    BY <1>1, <1>2, <1>3, <1>4, <1>5, NextCases

\* Evidence is linked one Event at a time, and never unlinked.
LEMMA LinkedGrows ==
    ASSUME TypeOK, [Next]_vars
    PROVE  linked' = linked \/ \E e \in Event : linked' = linked \cup {e}
  <1>1. CASE Links
    BY <1>1 DEF Links
  <1>2. CASE RecordsState
    BY <1>2 DEF RecordsState
  <1>3. CASE \E w \in Worker : CriticStep(w)
    BY <1>3, CriticFrame
  <1>4. CASE \E c \in Caller : CallStep(c)
    BY <1>4, CallFrame
  <1>5. CASE \E c \in Caller : BatchStep(c)
    BY <1>5, BatchKeeps DEF thesisVars, evidenceVars
  <1>6. CASE UNCHANGED vars
    BY <1>6 DEF vars, evidenceVars
  <1> QED
    BY <1>1, <1>2, <1>3, <1>4, <1>5, <1>6, NextCases

LEMMA NewestStep == TypeOK /\ HasNewest /\ [Next]_vars => HasNewest'
  <1> SUFFICES ASSUME TypeOK, HasNewest, [Next]_vars PROVE HasNewest'
    OBVIOUS
  <1>1. CASE linked' = linked
    BY <1>1 DEF HasNewest
  <1>2. ASSUME NEW n \in Event, linked' = linked \cup {n} PROVE HasNewest'
    <2>1. \A e \in linked' : DateOf(e) \in Nat
      BY <1>2, ThesisAssumption DEF TypeOK
    <2>2. PICK m \in linked : \A e \in linked : DateOf(e) <= DateOf(m)
      BY DEF HasNewest
    <2>3. CASE DateOf(n) <= DateOf(m)
      BY <1>2, <2>2, <2>3 DEF HasNewest
    <2>4. CASE DateOf(m) <= DateOf(n)
      BY <1>2, <2>1, <2>2, <2>4 DEF HasNewest
    <2> QED
      BY <1>2, <2>1, <2>3, <2>4
  <1> QED
    BY <1>1, <1>2, LinkedGrows

-----------------------------------------------------------------------------
(* The critics.                                                            *)

\* Until passes overlap, one is at work: its run is the last begun, and while it has
\* yet to store, what is open is of earlier runs.
LEMMA AloneStep ==
    ASSUME TypeOK, CriticsAlone, NEW w \in Worker, CriticStep(w)
    PROVE  CriticsAlone'
  <1> SUFFICES ASSUME late' = 0
               PROVE  /\ \A u, v \in Worker : AtWork(u)' /\ AtWork(v)' => u = v
                      /\ \A v \in Worker : AtWork(v)' => critic'[v].run = critiques'
                      /\ \A f \in findings' : f.run <= critiques'
                      /\ \A v \in Worker : critic'[v].step \in {"asked", "passed"} =>
                            \A f \in findings' : f.run < critiques'
                      /\ \A v \in Worker : critic'[v].step = "closed" => findings' = {}
    BY DEF CriticsAlone
  <1> USE DEF evidenceVars, callVars, passVars, AtWork
  <1>0. /\ critic \in [Worker -> CriticRow] /\ critiques \in Nat /\ late \in Nat
        /\ \A f \in findings : f.run \in Nat
    BY DEF TypeOK, FindingRow
  <1>a. late = 0 /\ \A v \in Worker \ {w} : critic'[v] = critic[v]
    BY CriticFrame
  <1>b. /\ \A u, v \in Worker : critic[u].step # "idle" /\ critic[v].step # "idle" => u = v
        /\ \A v \in Worker : critic[v].step # "idle" => critic[v].run = critiques
        /\ \A f \in findings : f.run <= critiques
        /\ \A v \in Worker : critic[v].step \in {"asked", "passed"} =>
              \A f \in findings : f.run < critiques
        /\ \A v \in Worker : critic[v].step = "closed" => findings = {}
    BY <1>a DEF CriticsAlone
  <1>1. CASE CriticStarts(w)
    <2>1. \A v \in Worker \ {w} : critic[v].step = "idle"
      BY <1>0, <1>1 DEF CriticStarts
    <2>2. /\ critiques' = critiques + 1 /\ findings' = findings
          /\ critic'[w].step = "asked" /\ critic'[w].run = critiques'
      BY <1>0, <1>1 DEF CriticStarts, NoCritique
    <2> QED
      BY <1>0, <1>a, <1>b, <2>1, <2>2
  <1>2. CASE CriticAnswers(w)
    <2>1. /\ critic[w].step = "asked" /\ critic'[w].step = "passed"
          /\ critic'[w].run = critic[w].run
          /\ critiques' = critiques /\ findings' = findings
      BY <1>0, <1>2 DEF CriticAnswers, CriticRow
    <2> QED
      BY <1>a, <1>b, <2>1
  <1>3. CASE Supersedes(w)
    <2>1. /\ critic[w].step = "passed" /\ critic'[w].step = "closed"
          /\ critic'[w].run = critic[w].run
          /\ critiques' = critiques /\ findings' = StillOpen(critic[w].run)
      BY <1>0, <1>3 DEF Supersedes, CriticRow
    <2>2. findings' = {}
      BY <1>0, <1>b, <2>1 DEF StillOpen
    <2> QED
      BY <1>0, <1>a, <1>b, <2>1, <2>2
  <1>4. CASE Stores(w)
    <2>1. /\ critic[w].step = "closed" /\ critic'[w].step = "stored"
          /\ critic'[w].run = critic[w].run /\ critiques' = critiques
          /\ findings' = findings \cup
                Findings(critic[w].run, critic[w].answer, critic[w].lead)
      BY <1>0, <1>4 DEF Stores, CriticRow
    <2>2. \A f \in findings' : f.run <= critiques
      BY <1>0, <1>b, <2>1 DEF Findings
    <2> QED
      BY <1>0, <1>a, <1>b, <2>1, <2>2
  <1>5. CASE RecordsRisk(w)
    BY <1>0, <1>5, <1>a, <1>b DEF RecordsRisk, NoCritique
  <1>6. CASE CriticEnds(w)
    BY <1>0, <1>6, <1>a, <1>b DEF CriticEnds, NoCritique
  <1> QED
    BY <1>1, <1>2, <1>3, <1>4, <1>5, <1>6 DEF CriticStep

LEMMA AnswersStep ==
    ASSUME TypeOK, AnswersPassed, NEW w \in Worker, CriticStep(w)
    PROVE  AnswersPassed'
  <1> DEFINE Good(row, noted) ==
                 row.step \in {"passed", "closed"} =>
                     /\ row.answer = <<>> \/ LeadPasses(row.answer, row.lead)
                     /\ ~noted => row.answer # <<>>
  <1>0. critic \in [Worker -> CriticRow] /\ emptied \in BOOLEAN
    BY DEF TypeOK
  <1>a. (~emptied' => ~emptied) /\ \A v \in Worker \ {w} : critic'[v] = critic[v]
    BY CriticFrame
  <1>b. \A v \in Worker : Good(critic[v], emptied)
    BY DEF AnswersPassed
  <1>c. \A v \in Worker \ {w} : Good(critic'[v], emptied')
    BY <1>a, <1>b
  <1>d. Good(critic'[w], emptied')
    <2>1. CASE CriticStarts(w)
      BY <1>0, <2>1 DEF CriticStarts, NoCritique
    <2>2. CASE CriticAnswers(w)
      <3>1. PICK answer \in Answers, lead \in 0..2 :
              /\ IF answer = <<>> THEN lead = 0 ELSE LeadPasses(answer, lead)
              /\ critic' = [critic EXCEPT ![w].step = "passed", ![w].answer = answer,
                                          ![w].lead = lead]
              /\ emptied' = (emptied \/ answer = <<>>)
        BY <2>2 DEF CriticAnswers
      <3>2. critic'[w].answer = answer /\ critic'[w].lead = lead
        BY <1>0, <3>1 DEF CriticRow
      <3> QED
        BY <3>1, <3>2
    <2>3. CASE Supersedes(w)
      <3>1. /\ critic'[w].answer = critic[w].answer /\ critic'[w].lead = critic[w].lead
            /\ critic[w].step = "passed" /\ emptied' = emptied
        BY <1>0, <2>3 DEF Supersedes, CriticRow
      <3> QED
        BY <1>b, <3>1
    <2>4. CASE Stores(w)
      BY <1>0, <2>4 DEF Stores, CriticRow
    <2>5. CASE RecordsRisk(w)
      BY <1>0, <2>5 DEF RecordsRisk, NoCritique
    <2>6. CASE CriticEnds(w)
      BY <1>0, <2>6 DEF CriticEnds, NoCritique
    <2> QED
      BY <2>1, <2>2, <2>3, <2>4, <2>5, <2>6 DEF CriticStep
  <1>e. \A v \in Worker : Good(critic'[v], emptied')
    BY <1>c, <1>d
  <1> QED
    BY <1>e DEF AnswersPassed

\* The findings of an answer that passed are led by the worst of them.
LEMMA LedFindings ==
    ASSUME NEW run, NEW answer \in Seq(Severity), NEW lead, LeadPasses(answer, lead)
    PROVE  \E f \in Findings(run, answer, lead) :
              /\ f.lead
              /\ \A g \in Findings(run, answer, lead) : g.severity <= f.severity
              /\ \A g \in Findings(run, answer, lead) : g.lead => g = f
  <1> DEFINE f == [run |-> run, no |-> lead, severity |-> answer[lead], lead |-> lead = lead]
  <1>1. lead \in DOMAIN answer /\ \A i \in DOMAIN answer : answer[i] <= answer[lead]
    BY DEF LeadPasses
  <1>2. f \in Findings(run, answer, lead)
    BY <1>1 DEF Findings
  <1>3. \A g \in Findings(run, answer, lead) : g.severity <= f.severity
    BY <1>1 DEF Findings
  <1>4. ASSUME NEW g \in Findings(run, answer, lead), g.lead PROVE g = f
    <2>1. PICK i \in DOMAIN answer :
            g = [run |-> run, no |-> i, severity |-> answer[i], lead |-> i = lead]
      BY DEF Findings
    <2>2. g.lead = (i = lead)
      BY <2>1, Zenon
    <2> QED
      BY <1>4, <2>1, <2>2, Zenon
  <1> QED
    BY <1>2, <1>3, <1>4

LEMMA LeadStep ==
    ASSUME TypeOK, CriticsAlone, AnswersPassed, LeadIsMostSevere,
           NEW w \in Worker, CriticStep(w)
    PROVE  LeadIsMostSevere'
  <1> SUFFICES ASSUME late' = 0, findings' # {}
               PROVE  \E f \in findings' : /\ f.lead
                                           /\ \A g \in findings' : g.severity <= f.severity
                                           /\ \A g \in findings' : g.lead => g = f
    BY DEF LeadIsMostSevere
  <1>0. /\ critic \in [Worker -> CriticRow] /\ critiques \in Nat
        /\ \A f \in findings : f.run \in Nat
    BY DEF TypeOK, FindingRow
  <1>a. late = 0
    BY CriticFrame
  <1>1. CASE findings' = findings
    BY <1>1, <1>a DEF LeadIsMostSevere
  <1>2. CASE Supersedes(w)
    <2>1. /\ critic[w].run = critiques
          /\ \A f \in findings : f.run < critiques
      BY <1>2, <1>a DEF Supersedes, CriticsAlone, AtWork
    <2>2. findings' = {}
      BY <1>0, <1>2, <2>1 DEF Supersedes, StillOpen
    <2> QED
      BY <2>2
  <1>3. CASE Stores(w)
    <2>1. findings' = Findings(critic[w].run, critic[w].answer, critic[w].lead)
      BY <1>3, <1>a DEF Stores, CriticsAlone
    <2>2. critic[w].answer # <<>>
      BY <2>1 DEF Findings
    <2>3. LeadPasses(critic[w].answer, critic[w].lead)
      BY <1>3, <2>2 DEF Stores, AnswersPassed
    <2> QED
      BY <2>1, <2>3, LedFindings, CriticFacts
  <1>4. findings' = findings \/ Supersedes(w) \/ Stores(w)
    BY DEF CriticStep, CriticStarts, CriticAnswers, RecordsRisk, CriticEnds
  <1> QED
    BY <1>1, <1>2, <1>3, <1>4

\* An attack leaves findings, except between the two transactions of a pass.
LEMMA AttackStep ==
    ASSUME TypeOK, CriticsAlone, AnswersPassed, AttackStands, NEW w \in Worker, CriticStep(w)
    PROVE  AttackStands'
  <1> SUFFICES ASSUME late' = 0, kills' = 0, ~emptied', stored' >= 0
               PROVE  findings' # {} \/ \E v \in Worker : critic'[v].step = "closed"
    BY DEF AttackStands
  <1>0. critic \in [Worker -> CriticRow] /\ kills \in Nat
    BY DEF TypeOK
  <1>a. /\ late = 0 /\ kills = 0 /\ ~emptied
        /\ \A v \in Worker \ {w} : critic'[v] = critic[v]
    BY CriticFrame
  <1>b. stored >= 0 => findings # {} \/ \E v \in Worker : critic[v].step = "closed"
    BY <1>a DEF AttackStands
  <1>1. CASE CriticStarts(w)
    BY <1>0, <1>a, <1>b, <1>1 DEF CriticStarts
  <1>2. CASE CriticAnswers(w)
    BY <1>0, <1>a, <1>b, <1>2 DEF CriticAnswers
  <1>3. CASE Supersedes(w)
    BY <1>0, <1>3 DEF Supersedes
  <1>4. CASE Stores(w)
    <2>1. critic[w].answer # <<>> /\ critic[w].answer \in Seq(Severity)
      BY <1>4, <1>a, CriticFacts DEF Stores, AnswersPassed
    <2>2. 1 \in DOMAIN critic[w].answer
      BY <2>1
    <2>3. Findings(critic[w].run, critic[w].answer, critic[w].lead) # {}
      BY <2>2 DEF Findings
    <2> QED
      BY <1>4, <2>3 DEF Stores
  <1>5. CASE RecordsRisk(w)
    BY <1>0, <1>a, <1>b, <1>5 DEF RecordsRisk
  <1>6. CASE CriticEnds(w)
    BY <1>0, <1>a, <1>b, <1>6 DEF CriticEnds
  <1> QED
    BY <1>1, <1>2, <1>3, <1>4, <1>5, <1>6 DEF CriticStep

LEMMA CriticInvStep ==
    TypeOK /\ CriticInv /\ [Next]_vars => CriticInv'
  <1> SUFFICES ASSUME TypeOK, CriticInv, [Next]_vars PROVE CriticInv'
    OBVIOUS
  <1>1. CASE \E w \in Worker : CriticStep(w)
    BY <1>1, AloneStep, AnswersStep, LeadStep, AttackStep DEF CriticInv
  <1>2. CASE UNCHANGED criticVars /\ (kills' = 0 => kills = 0)
    <2>1. CriticsAlone' /\ AnswersPassed' /\ LeadIsMostSevere'
      BY <1>2 DEF criticVars, CriticInv, CriticsAlone, AnswersPassed, LeadIsMostSevere, AtWork
    <2>2. AttackStands'
      BY <1>2 DEF criticVars, CriticInv, AttackStands
    <2> QED
      BY <2>1, <2>2 DEF CriticInv
  <1> QED
    BY <1>1, <1>2, CriticOrNot

\* Unless a State was recorded across a pass, what is stored was found against the
\* State that was the latest when it was stored.
LEMMA StateInvStep == TypeOK /\ StateInv /\ [Next]_vars => StateInv'
  <1> SUFFICES ASSUME TypeOK, StatesWereRead, [Next]_vars, ~raced'
               PROVE  /\ \A w \in Worker : critic'[w].step # "idle" => critic'[w].saw = stateNo'
                      /\ stored' >= 0 => attacked' = stored'
    BY DEF StateInv, StatesWereRead, AtWork
  <1> USE DEF criticVars, passVars
  <1>0. critic \in [Worker -> CriticRow] /\ raced \in BOOLEAN /\ stateNo \in Nat
    BY DEF TypeOK
  <1>1. CASE RecordsState
    BY <1>0, <1>1 DEF RecordsState, StatesWereRead, AtWork
  <1>2. CASE \E w \in Worker : CriticStep(w)
    <2> PICK w \in Worker : CriticStep(w)
      BY <1>2
    <2>a. /\ ~raced /\ stateNo' = stateNo
          /\ \A v \in Worker \ {w} : critic'[v] = critic[v]
      BY CriticFrame
    <2>b. /\ \A v \in Worker : critic[v].step # "idle" => critic[v].saw = stateNo
          /\ stored >= 0 => attacked = stored
      BY <2>a DEF StatesWereRead, AtWork
    <2>1. CASE CriticStarts(w)
      BY <1>0, <2>a, <2>b, <2>1 DEF CriticStarts, NoCritique
    <2>2. CASE CriticAnswers(w)
      <3>1. /\ critic'[w].saw = critic[w].saw /\ critic[w].step = "asked"
            /\ stored' = stored /\ attacked' = attacked
        BY <1>0, <2>2 DEF CriticAnswers, CriticRow
      <3> QED
        BY <2>a, <2>b, <3>1
    <2>3. CASE Supersedes(w)
      <3>1. /\ critic'[w].saw = critic[w].saw /\ critic[w].step = "passed"
            /\ stored' = stored /\ attacked' = attacked
        BY <1>0, <2>3 DEF Supersedes, CriticRow
      <3> QED
        BY <2>a, <2>b, <3>1
    <2>4. CASE Stores(w)
      <3>1. /\ critic'[w].saw = critic[w].saw /\ critic[w].step = "closed"
            /\ stored' = IF critic[w].answer = <<>> THEN stored ELSE stateNo
            /\ attacked' = IF critic[w].answer = <<>> THEN attacked ELSE critic[w].saw
        BY <1>0, <2>4 DEF Stores, CriticRow
      <3> QED
        BY <2>a, <2>b, <3>1
    <2>5. CASE RecordsRisk(w)
      BY <1>0, <2>a, <2>b, <2>5 DEF RecordsRisk, NoCritique
    <2>6. CASE CriticEnds(w)
      BY <1>0, <2>a, <2>b, <2>6 DEF CriticEnds, NoCritique
    <2> QED
      BY <2>1, <2>2, <2>3, <2>4, <2>5, <2>6 DEF CriticStep
  <1>3. CASE UNCHANGED <<stateNo, raced, critic, stored, attacked>>
    BY <1>3 DEF StatesWereRead, AtWork
  <1>4. CASE Links
    BY <1>3, <1>4 DEF Links
  <1>5. CASE \E c \in Caller : CallStep(c)
    BY <1>3, <1>5, CallFrame
  <1>6. CASE \E c \in Caller : BatchStep(c)
    BY <1>3, <1>6, BatchKeeps DEF thesisVars, evidenceVars
  <1>7. CASE UNCHANGED vars
    BY <1>3, <1>7 DEF vars, evidenceVars
  <1> QED
    BY <1>1, <1>2, <1>4, <1>5, <1>6, <1>7, NextCases

\* The finder misses no State that no critic has read.
LEMMA PendingFact == TypeOK /\ StateInv => UnattackedStateIsPending
  BY DEF TypeOK, StateInv, StatesWereRead, UnattackedStateIsPending, Pending

-----------------------------------------------------------------------------
(* The scorecards.                                                         *)

LEMMA AppendFact ==
    ASSUME TypeOK, NEW row \in CardRow, cards' = Append(cards, row)
    PROVE  /\ Keeps(cards, cards')
           /\ DOMAIN cards' = 1..(Len(cards) + 1) /\ Len(cards') = Len(cards) + 1
           /\ cards'[Len(cards) + 1] = row
           /\ \A i \in DOMAIN cards : cards'[i] = cards[i]
  <1>1. cards \in Seq(CardRow) /\ Len(cards) \in Nat /\ DOMAIN cards = 1..Len(cards)
    BY CardFacts DEF TypeOK
  <1>2. /\ cards' \in Seq(CardRow) /\ Len(cards') = Len(cards) + 1
        /\ cards'[Len(cards) + 1] = row
        /\ \A i \in 1..Len(cards) : cards'[i] = cards[i]
    BY <1>1, AppendProperties
  <1> QED
    BY <1>1, <1>2 DEF Keeps

LEMMA AnnotatesFact ==
    ASSUME TypeOK, NEW c \in Caller, Annotates(c)
    PROVE  /\ Keeps(cards, cards')
           /\ DOMAIN cards' = DOMAIN cards /\ Len(cards') = Len(cards)
           /\ \A i \in DOMAIN cards : cards'[i].by = cards[i].by /\ cards'[i].axes = cards[i].axes
           /\ call[c].seen \in DOMAIN cards => cards'[call[c].seen].explained
  <1>1. cards \in Seq(CardRow) /\ Len(cards) \in Nat /\ DOMAIN cards = 1..Len(cards)
        /\ \A i \in DOMAIN cards : cards[i] \in CardRow
    BY CardFacts DEF TypeOK
  <1>2. cards' = [cards EXCEPT ![call[c].seen] = Explain(cards[call[c].seen])]
    BY <1>1 DEF Annotates
  <1>3. DOMAIN cards' = DOMAIN cards /\ Len(cards') = Len(cards)
    BY <1>1, <1>2
  <1>4. ASSUME NEW i \in DOMAIN cards
        PROVE  /\ cards'[i].by = cards[i].by /\ cards'[i].observed = cards[i].observed
               /\ cards'[i].basis = cards[i].basis /\ cards'[i].seen = cards[i].seen
               /\ cards'[i].axes = cards[i].axes
               /\ cards[i].explained => cards'[i].explained
               /\ i = call[c].seen => cards'[i].explained
    <2>1. cards'[i] = IF i = call[c].seen THEN Explain(cards[i]) ELSE cards[i]
      BY <1>1, <1>2
    <2> QED
      BY <1>1, <2>1 DEF Explain, CardRow
  <1> QED
    BY <1>1, <1>3, <1>4 DEF Keeps

\* Scorecards are added by the two stages, and explained by one.
LEMMA CardSteps ==
    ASSUME TypeOK, [Next]_vars
    PROVE  \/ UNCHANGED cards
           \/ \E w \in Worker : RecordsRisk(w)
           \/ \E c \in Caller : Scores(c)
           \/ \E c \in Caller : Annotates(c)
  <1>1. CASE Links
    BY <1>1 DEF Links
  <1>2. CASE RecordsState
    BY <1>2 DEF RecordsState
  <1>3. CASE \E w \in Worker : CriticStep(w)
    BY <1>3 DEF CriticStep, CriticStarts, CriticAnswers, Supersedes, Stores, CriticEnds
  <1>4. CASE \E c \in Caller : CallStep(c)
    BY <1>4 DEF CallStep, ThesisReads, GoesWithout, Imagines, ReplacesWorlds, CallEnds
  <1>5. CASE \E c \in Caller : BatchStep(c)
    BY <1>5, BatchKeeps DEF thesisVars
  <1>6. CASE UNCHANGED vars
    BY <1>6 DEF vars
  <1> QED
    BY <1>1, <1>2, <1>3, <1>4, <1>5, <1>6, NextCases

LEMMA CardsGrow ==
    ASSUME TypeOK, [Next]_vars
    PROVE  /\ DOMAIN cards = 1..Len(cards) /\ DOMAIN cards' = 1..Len(cards')
           /\ Len(cards) \in Nat /\ Len(cards') \in Nat /\ Len(cards) <= Len(cards')
  <1>1. \/ cards' = cards \/ \E row \in CardRow : cards' = Append(cards, row)
        \/ Len(cards') = Len(cards) /\ DOMAIN cards' = DOMAIN cards
    BY CardSteps, ScoresFact, ThesisCardType, AnnotatesFact, CriticFacts, RiskCardType
       DEF RecordsRisk
  <1> QED
    BY <1>1, CardFacts, AppendFact

LEMMA CardsAreKept ==
    ASSUME TypeOK, [Next]_vars
    PROVE  Keeps(cards, cards')
  <1>1. CASE UNCHANGED cards
    BY <1>1, CardFacts DEF Keeps
  <1>2. ASSUME NEW w \in Worker, RecordsRisk(w) PROVE Keeps(cards, cards')
    <2>1. cards' = Append(cards, RiskCard(critic[w].dated))
      BY <1>2 DEF RecordsRisk
    <2> QED
      BY <2>1, CriticFacts, RiskCardType, AppendFact
  <1>3. ASSUME NEW c \in Caller, Scores(c) PROVE Keeps(cards, cards')
    BY <1>3, ScoresFact, ThesisCardType, AppendFact
  <1>4. ASSUME NEW c \in Caller, Annotates(c) PROVE Keeps(cards, cards')
    BY <1>4, AnnotatesFact
  <1> QED
    BY <1>1, <1>2, <1>3, <1>4, CardSteps

\* The critic's cards are the ones there were, and the one it adds.
LEMMA CriticCards ==
    ASSUME TypeOK, [Next]_vars, NEW i \in ByCritic(cards')
    PROVE  \/ i \in ByCritic(cards) /\ cards'[i].observed = cards[i].observed
           \/ \E w \in Worker : /\ RecordsRisk(w) /\ i = Len(cards) + 1
                                /\ cards'[i].observed = critic[w].dated
  <1>1. CASE UNCHANGED cards
    BY <1>1 DEF ByCritic
  <1>2. ASSUME NEW w \in Worker, RecordsRisk(w)
        PROVE  \/ i \in ByCritic(cards) /\ cards'[i].observed = cards[i].observed
               \/ i = Len(cards) + 1 /\ cards'[i].observed = critic[w].dated
    <2>1. cards' = Append(cards, RiskCard(critic[w].dated))
      BY <1>2 DEF RecordsRisk
    <2>2. RiskCard(critic[w].dated) \in CardRow
      BY CriticFacts, RiskCardType
    <2> QED
      BY <2>1, <2>2, AppendFact, CardFacts DEF ByCritic, RiskCard
  <1>3. ASSUME NEW c \in Caller, Scores(c)
        PROVE  i \in ByCritic(cards) /\ cards'[i].observed = cards[i].observed
    <2> PICK axes \in {{}, Judged} : cards' = Append(cards, ThesisCard(c, axes))
      BY <1>3, ScoresFact
    <2> QED
      BY ThesisCardType, AppendFact, CardFacts DEF ByCritic, ThesisCard
  <1>4. ASSUME NEW c \in Caller, Annotates(c)
        PROVE  i \in ByCritic(cards) /\ cards'[i].observed = cards[i].observed
    BY <1>4, AnnotatesFact DEF ByCritic, Keeps
  <1> QED
    BY <1>1, <1>2, <1>3, <1>4, CardSteps

\* A pass keeps the date it read when it began.
LEMMA PassDates ==
    ASSUME TypeOK, [Next]_vars, NEW v \in Worker, AtWork(v)'
    PROVE  \/ AtWork(v) /\ critic'[v].dated = critic[v].dated
           \/ CriticStarts(v) /\ critic'[v].dated = Newest
  <1> USE DEF AtWork
  <1>0. critic \in [Worker -> CriticRow]
    BY DEF TypeOK
  <1>1. CASE UNCHANGED criticVars
    BY <1>1 DEF criticVars
  <1>2. ASSUME NEW w \in Worker, CriticStep(w), w # v
        PROVE  AtWork(v) /\ critic'[v].dated = critic[v].dated
    BY <1>2, CriticFrame
  <1>3. CASE CriticStep(v)
    <2>1. CASE CriticStarts(v)
      BY <1>0, <2>1 DEF CriticStarts, NoCritique
    <2>2. CASE CriticAnswers(v)
      BY <1>0, <2>2 DEF CriticAnswers, CriticRow
    <2>3. CASE Supersedes(v)
      BY <1>0, <2>3 DEF Supersedes, CriticRow
    <2>4. CASE Stores(v)
      BY <1>0, <2>4 DEF Stores, CriticRow
    <2>5. CASE RecordsRisk(v)
      BY <1>0, <2>5 DEF RecordsRisk, NoCritique
    <2>6. CASE CriticEnds(v)
      BY <1>0, <2>6 DEF CriticEnds, NoCritique
    <2> QED
      BY <1>3, <2>1, <2>2, <2>3, <2>4, <2>5, <2>6 DEF CriticStep
  <1> QED
    BY <1>1, <1>2, <1>3, CriticOrNot

LEMMA LateGrows ==
    ASSUME TypeOK, [Next]_vars, late' = 0
    PROVE  late = 0
  BY CriticOrNot, CriticFrame DEF criticVars

\* The numbers of single passes are in the order of their dates: each pass is dated by
\* evidence that is linked when it begins, and evidence is only added.
LEMMA DatesStep ==
    TypeOK /\ HasNewest /\ CriticsAlone /\ RisksAreDated /\ [Next]_vars => RisksAreDated'
  <1> SUFFICES ASSUME TypeOK, HasNewest, CriticsAlone, RisksAreDated, [Next]_vars
               PROVE  RisksAreDated'
    OBVIOUS
  <1>0. /\ Len(cards) \in Nat /\ DOMAIN cards = 1..Len(cards)
        /\ \A i \in DOMAIN cards : cards[i].observed \in Nat
        /\ ByCritic(cards) \subseteq DOMAIN cards
    BY CardFacts DEF ByCritic
  <1>1. linked \subseteq linked' /\ \A n : DatedBy(linked, n) => DatedBy(linked', n)
    BY LinkedGrows DEF DatedBy
  <1>2. ASSUME NEW i \in ByCritic(cards') PROVE DatedBy(linked', cards'[i].observed)
    <2>1. CASE i \in ByCritic(cards) /\ cards'[i].observed = cards[i].observed
      BY <1>1, <2>1 DEF RisksAreDated
    <2>2. ASSUME NEW w \in Worker, RecordsRisk(w), cards'[i].observed = critic[w].dated
          PROVE  DatedBy(linked', cards'[i].observed)
      BY <1>1, <2>2 DEF RisksAreDated, RecordsRisk, AtWork
    <2> QED
      BY <2>1, <2>2, CriticCards
  <1>3. ASSUME NEW v \in Worker, AtWork(v)' PROVE DatedBy(linked', critic'[v].dated)
    <2>1. CASE AtWork(v) /\ critic'[v].dated = critic[v].dated
      BY <1>1, <2>1 DEF RisksAreDated
    <2>2. CASE critic'[v].dated = Newest
      <3>1. PICK m \in linked : Newest = DateOf(m)
        BY NewestFact
      <3>2. DatedBy(linked, Newest)
        BY <3>1, NewestFact DEF DatedBy
      <3> QED
        BY <1>1, <2>2, <3>2
    <2> QED
      BY <1>3, <2>1, <2>2, PassDates
  <1>4. ASSUME late' = 0, NEW i \in ByCritic(cards'), NEW j \in ByCritic(cards'), i <= j
        PROVE  cards'[i].observed <= cards'[j].observed
    <2>1. /\ \A k, l \in ByCritic(cards) : k <= l => cards[k].observed <= cards[l].observed
          /\ \A w \in Worker : AtWork(w) =>
                \A k \in ByCritic(cards) : cards[k].observed <= critic[w].dated
      BY <1>4, LateGrows DEF RisksAreDated
    <2>2. /\ Len(cards') \in Nat /\ DOMAIN cards' = 1..Len(cards')
          /\ cards'[i].observed \in Nat /\ i \in DOMAIN cards'
      <3>1. cards' \in Seq(CardRow) /\ i \in DOMAIN cards'
        BY TypeStep DEF TypeOK, ByCritic
      <3>2. cards'[i] \in CardRow
        BY <3>1
      <3> QED
        BY <3>1, <3>2 DEF CardRow
    <2>3. CASE i \in ByCritic(cards) /\ cards'[i].observed = cards[i].observed
      <3>1. CASE j \in ByCritic(cards) /\ cards'[j].observed = cards[j].observed
        BY <1>4, <2>1, <2>3, <3>1
      <3>2. ASSUME NEW w \in Worker, RecordsRisk(w), cards'[j].observed = critic[w].dated
            PROVE  cards'[i].observed <= cards'[j].observed
        BY <2>1, <2>3, <3>2 DEF RecordsRisk, AtWork
      <3> QED
        BY <3>1, <3>2, CriticCards
    <2>4. CASE i = Len(cards) + 1
      <3>1. j \notin ByCritic(cards)
        BY <1>0, <1>4, <2>4
      <3>2. j = i
        BY <2>4, <3>1, CriticCards
      <3> QED
        BY <2>2, <3>2
    <2> QED
      BY <2>3, <2>4, CriticCards
  <1>5. ASSUME late' = 0, NEW v \in Worker, AtWork(v)', NEW i \in ByCritic(cards')
        PROVE  cards'[i].observed <= critic'[v].dated
    <2>1. CASE CriticStarts(v) /\ critic'[v].dated = Newest
      <3>1. cards' = cards
        BY <2>1 DEF CriticStarts
      <3>2. PICK e \in linked : cards[i].observed <= DateOf(e)
        BY <3>1 DEF RisksAreDated, DatedBy
      <3>3. /\ DateOf(e) <= Newest /\ DateOf(e) \in Nat /\ Newest \in Nat
            /\ cards[i].observed \in Nat
        BY <1>0, <3>1, NewestFact, ThesisAssumption DEF TypeOK
      <3> QED
        BY <2>1, <3>1, <3>2, <3>3
    <2>2. CASE AtWork(v) /\ critic'[v].dated = critic[v].dated
      <3>1. CASE i \in ByCritic(cards) /\ cards'[i].observed = cards[i].observed
        BY <1>5, <2>2, <3>1, LateGrows DEF RisksAreDated
      <3>2. ASSUME NEW w \in Worker, RecordsRisk(w) PROVE FALSE
        <4>1. w = v
          BY <1>5, <2>2, <3>2, LateGrows DEF RecordsRisk, CriticsAlone, AtWork
        <4> QED
          BY <1>5, <3>2, <4>1 DEF RecordsRisk, NoCritique, AtWork, TypeOK
      <3> QED
        BY <3>1, <3>2, CriticCards
    <2> QED
      BY <1>5, <2>1, <2>2, PassDates
  <1> QED
    BY <1>2, <1>3, <1>4, <1>5 DEF RisksAreDated

\* What was the latest of the first scorecards stays so.
LEMMA LatestKept ==
    ASSUME TypeOK, [Next]_vars, NEW basis \in Nat, NEW seen \in Nat,
           LatestOf(cards, basis, seen)
    PROVE  LatestOf(cards', basis, seen)
  <1>1. /\ Len(cards) \in Nat /\ Len(cards') \in Nat /\ DOMAIN cards = 1..Len(cards)
        /\ Len(cards) <= Len(cards')
        /\ \A i \in DOMAIN cards : cards'[i].axes = cards[i].axes
                                   /\ cards'[i].observed = cards[i].observed
    BY CardsGrow, CardsAreKept DEF Keeps
  <1>2. seen <= Len(cards) /\ \A j \in 1..seen : j \in DOMAIN cards
    BY <1>1 DEF LatestOf
  <1>3. \A j \in 1..seen : /\ Scored(cards', j) <=> Scored(cards, j)
                           /\ cards'[j].observed = cards[j].observed
    BY <1>1, <1>2 DEF Scored
  <1> QED
    BY <1>1, <1>2, <1>3 DEF LatestOf

\* A thesis card is one there was, or takes over what its pass has read.
LEMMA ThesisCards ==
    ASSUME TypeOK, [Next]_vars, NEW i \in DOMAIN cards', cards'[i].by = "thesis"
    PROVE  \/ /\ i \in DOMAIN cards /\ cards[i].by = "thesis"
              /\ cards'[i].basis = cards[i].basis /\ cards'[i].seen = cards[i].seen
           \/ \E c \in Caller : /\ Scores(c) /\ i = Len(cards) + 1
                                /\ cards'[i].basis = call[c].basis
                                /\ cards'[i].seen = call[c].seen
  <1>1. CASE UNCHANGED cards
    BY <1>1
  <1>2. ASSUME NEW w \in Worker, RecordsRisk(w)
        PROVE  /\ i \in DOMAIN cards /\ cards[i].by = "thesis"
               /\ cards'[i].basis = cards[i].basis /\ cards'[i].seen = cards[i].seen
    <2>1. cards' = Append(cards, RiskCard(critic[w].dated))
      BY <1>2 DEF RecordsRisk
    <2>2. RiskCard(critic[w].dated) \in CardRow
      BY CriticFacts, RiskCardType
    <2> QED
      BY <2>1, <2>2, AppendFact, CardFacts DEF RiskCard
  <1>3. ASSUME NEW c \in Caller, Scores(c)
        PROVE  \/ /\ i \in DOMAIN cards /\ cards[i].by = "thesis"
                  /\ cards'[i].basis = cards[i].basis /\ cards'[i].seen = cards[i].seen
               \/ /\ i = Len(cards) + 1
                  /\ cards'[i].basis = call[c].basis /\ cards'[i].seen = call[c].seen
    <2> PICK axes \in {{}, Judged} : cards' = Append(cards, ThesisCard(c, axes))
      BY <1>3, ScoresFact
    <2> QED
      BY ThesisCardType, AppendFact, CardFacts DEF ThesisCard
  <1>4. ASSUME NEW c \in Caller, Annotates(c)
        PROVE  /\ i \in DOMAIN cards /\ cards[i].by = "thesis"
               /\ cards'[i].basis = cards[i].basis /\ cards'[i].seen = cards[i].seen
    BY <1>4, AnnotatesFact DEF Keeps
  <1> QED
    BY <1>1, <1>2, <1>3, <1>4, CardSteps

Reading == {"imagining", "replacing", "scoring"}

\* A pass keeps what it read when it began.
LEMMA CallReads ==
    ASSUME TypeOK, [Next]_vars, NEW d \in Caller, call'[d].step \in Reading
    PROVE  \/ /\ call[d].step \in Reading
              /\ call'[d].basis = call[d].basis /\ call'[d].seen = call[d].seen
           \/ /\ UNCHANGED cards /\ call'[d].seen = Len(cards)
              /\ call'[d].basis \in IF Contradictions = {} THEN {0} ELSE LatestRisk
  <1> USE DEF Reading
  <1>0. call \in [Caller -> CallRow]
    BY DEF TypeOK
  <1>1. CASE UNCHANGED callVars
    BY <1>1 DEF callVars
  <1>2. ASSUME NEW c \in Caller, CallStep(c), c # d
        PROVE  /\ call[d].step \in Reading
               /\ call'[d].basis = call[d].basis /\ call'[d].seen = call[d].seen
    BY <1>2, CallFrame
  <1>3. CASE CallStep(d)
    <2>1. CASE ThesisReads(d)
      BY <1>0, <2>1 DEF ThesisReads, NoCall
    <2>2. CASE GoesWithout(d)
      BY <1>0, <2>2 DEF GoesWithout, CallRow
    <2>3. CASE Imagines(d)
      BY <1>0, <2>3 DEF Imagines, CallRow
    <2>4. CASE ReplacesWorlds(d)
      BY <1>0, <2>4 DEF ReplacesWorlds, CallRow
    <2>5. CASE Scores(d)
      BY <1>0, <2>5 DEF Scores, NoCall
    <2>6. CASE Annotates(d)
      BY <1>0, <2>6 DEF Annotates, NoCall
    <2>7. CASE CallEnds(d)
      BY <1>0, <2>7 DEF CallEnds, NoCall
    <2> QED
      BY <1>3, <2>1, <2>2, <2>3, <2>4, <2>5, <2>6, <2>7 DEF CallStep
  <1> QED
    BY <1>1, <1>2, <1>3, CallOrNot

LEMMA BasisStep == TypeOK /\ BasisWasLatest /\ [Next]_vars => BasisWasLatest'
  <1> SUFFICES ASSUME TypeOK, BasisWasLatest, [Next]_vars PROVE BasisWasLatest'
    OBVIOUS
  <1>1. ASSUME NEW i \in DOMAIN cards', cards'[i].by = "thesis"
        PROVE  LatestOf(cards', cards'[i].basis, cards'[i].seen)
    <2>1. CASE /\ i \in DOMAIN cards /\ cards[i].by = "thesis"
               /\ cards'[i].basis = cards[i].basis /\ cards'[i].seen = cards[i].seen
      BY <2>1, CardFacts, LatestKept DEF BasisWasLatest
    <2>2. ASSUME NEW c \in Caller, Scores(c), cards'[i].basis = call[c].basis,
                 cards'[i].seen = call[c].seen
          PROVE  LatestOf(cards', cards'[i].basis, cards'[i].seen)
      BY <2>2, CallFacts, LatestKept DEF BasisWasLatest, Scores
    <2> QED
      BY <1>1, <2>1, <2>2, ThesisCards
  <1>2. ASSUME NEW d \in Caller, call'[d].step \in Reading
        PROVE  LatestOf(cards', call'[d].basis, call'[d].seen)
    <2>1. CASE /\ call[d].step \in Reading
               /\ call'[d].basis = call[d].basis /\ call'[d].seen = call[d].seen
      BY <2>1, CallFacts, LatestKept DEF BasisWasLatest, Reading
    <2>2. CASE /\ UNCHANGED cards /\ call'[d].seen = Len(cards)
               /\ call'[d].basis \in IF Contradictions = {} THEN {0} ELSE LatestRisk
      <3>1. Len(cards) \in Nat /\ DOMAIN cards = 1..Len(cards)
        BY CardFacts
      <3>2. CASE Contradictions = {}
        BY <2>2, <3>1, <3>2 DEF LatestOf, Contradictions, Scored
      <3>3. CASE Contradictions # {}
        BY <2>2, <3>1, <3>3 DEF LatestOf, Contradictions, LatestRisk, Scored
      <3> QED
        BY <3>2, <3>3
    <2> QED
      BY <1>2, <2>1, <2>2, CallReads
  <1> QED
    BY <1>1, <1>2 DEF BasisWasLatest, Reading

\* Among the numbers of the critic, dated apart, the latest is the last.
LEMMA LastOfLatest ==
    TypeOK /\ RisksAreDated /\ BasisWasLatest => RiskIsTheLastCritics
  <1> SUFFICES ASSUME TypeOK, RisksAreDated, BasisWasLatest, NEW i \in DOMAIN cards,
                      cards[i].by = "thesis", late = 0,
                      NEW read, read = {j \in 1..cards[i].seen : Scored(cards, j)},
                      \A j \in read : cards[j].by = "critic",
                      \A j, k \in read : cards[j].observed = cards[k].observed => j = k,
                      NEW j \in read
               PROVE  j <= cards[i].basis
    BY DEF RiskIsTheLastCritics, Scored
  <1> DEFINE basis == cards[i].basis
  <1>1. /\ LatestOf(cards, basis, cards[i].seen)
        /\ Len(cards) \in Nat /\ DOMAIN cards = 1..Len(cards)
        /\ basis \in Nat /\ cards[i].seen \in Nat
        /\ \A k \in DOMAIN cards : cards[k].observed \in Nat
    BY CardFacts DEF BasisWasLatest
  <1>2. basis \in read /\ cards[j].observed <= cards[basis].observed
    BY <1>1 DEF LatestOf
  <1>3. read \subseteq ByCritic(cards)
    BY <1>1 DEF ByCritic, LatestOf
  <1>4. basis <= j => cards[basis].observed <= cards[j].observed
    BY <1>2, <1>3 DEF RisksAreDated
  <1> QED
    BY <1>1, <1>2, <1>3, <1>4 DEF ByCritic

HasRisk(table) == \E i \in DOMAIN table : Scored(table, i) /\ table[i].by = "critic"

LEMMA RiskKept ==
    ASSUME TypeOK, [Next]_vars, HasRisk(cards)
    PROVE  HasRisk(cards')
  <1>1. PICK i \in DOMAIN cards : Scored(cards, i) /\ cards[i].by = "critic"
    BY DEF HasRisk
  <1>2. Keeps(cards, cards') /\ DOMAIN cards = 1..Len(cards) /\ DOMAIN cards' = 1..Len(cards')
        /\ Len(cards) \in Nat /\ Len(cards') \in Nat
    BY CardsGrow, CardsAreKept
  <1> QED
    BY <1>1, <1>2 DEF HasRisk, Scored, Keeps

\* Findings that are stored get their risk, or cost a kill.
LEMMA RiskFollowsStep == TypeOK /\ RiskFollowsFindings /\ [Next]_vars => RiskFollowsFindings'
  <1> SUFFICES ASSUME TypeOK, RiskFollowsFindings, [Next]_vars, stored' >= 0, kills' = 0,
                      \A w \in Worker : critic'[w].step # "stored"
               PROVE  HasRisk(cards')
    BY DEF RiskFollowsFindings, HasRisk, Contradictions, Scored
  <1>0. critic \in [Worker -> CriticRow] /\ kills \in Nat
    BY DEF TypeOK
  <1>1. stored >= 0 /\ kills = 0 /\ (\A w \in Worker : critic[w].step # "stored")
          => HasRisk(cards)
    BY DEF RiskFollowsFindings, HasRisk, Contradictions, Scored
  <1>2. CASE UNCHANGED criticVars /\ (kills' = 0 => kills = 0)
    BY <1>1, <1>2, RiskKept DEF criticVars
  <1>3. ASSUME NEW w \in Worker, RecordsRisk(w) PROVE HasRisk(cards')
    <2>1. cards' = Append(cards, RiskCard(critic[w].dated))
      BY <1>3 DEF RecordsRisk
    <2>2. /\ Len(cards) + 1 \in DOMAIN cards'
          /\ cards'[Len(cards) + 1] = RiskCard(critic[w].dated)
      BY <2>1, CardFacts, CriticFacts, RiskCardType, AppendFact
    <2>3. Scored(cards', Len(cards) + 1) /\ cards'[Len(cards) + 1].by = "critic"
      BY <2>2 DEF Scored, RiskCard
    <2> QED
      BY <2>2, <2>3 DEF HasRisk
  <1>4. ASSUME NEW w \in Worker, CriticStep(w), ~RecordsRisk(w) PROVE HasRisk(cards')
    <2>a. kills = 0 /\ \A v \in Worker \ {w} : critic'[v] = critic[v]
      BY <1>4, CriticFrame
    <2>1. CASE CriticStarts(w)
      BY <1>0, <1>1, <2>1, <2>a, RiskKept DEF CriticStarts
    <2>2. CASE CriticAnswers(w)
      BY <1>0, <1>1, <2>2, <2>a, RiskKept DEF CriticAnswers
    <2>3. CASE Supersedes(w)
      BY <1>0, <1>1, <2>3, <2>a, RiskKept DEF Supersedes
    <2>4. CASE Stores(w)
      BY <1>0, <2>4 DEF Stores, CriticRow
    <2>5. CASE CriticEnds(w)
      BY <1>0, <1>1, <2>5, <2>a, RiskKept DEF CriticEnds
    <2> QED
      BY <1>4, <2>1, <2>2, <2>3, <2>4, <2>5 DEF CriticStep
  <1> QED
    BY <1>2, <1>3, <1>4, CriticOrNot

LEMMA RiskInvStep ==
    TypeOK /\ HasNewest /\ CriticInv /\ RiskInv /\ [Next]_vars => RiskInv'
  BY DatesStep, BasisStep, RiskFollowsStep DEF CriticInv, RiskInv

-----------------------------------------------------------------------------
(* What the scorecards say.                                                *)

LEMMA MeasureStep == TypeOK /\ CallsMeasure /\ [Next]_vars => CallsMeasure'
  <1> SUFFICES ASSUME TypeOK, CallsMeasure, [Next]_vars, NEW d \in Caller
               PROVE  /\ call'[d].axes \subseteq Computed
                      /\ call'[d].step = "annotating" => call'[d].seen \in DOMAIN cards'
    BY DEF CallsMeasure
  <1>0. call \in [Caller -> CallRow]
    BY DEF TypeOK
  <1>a. DOMAIN cards \subseteq DOMAIN cards'
    BY CardsGrow
  <1>b. /\ call[d].axes \subseteq Computed
        /\ call[d].step = "annotating" => call[d].seen \in DOMAIN cards
    BY DEF CallsMeasure
  <1>1. CASE UNCHANGED callVars
    BY <1>1, <1>a, <1>b DEF callVars
  <1>2. ASSUME NEW c \in Caller, CallStep(c), c # d
        PROVE  call'[d] = call[d]
    BY <1>2, CallFrame
  <1>3. CASE CallStep(d)
    <2>1. CASE ThesisReads(d)
      BY <1>0, <2>1, MeasuredFact DEF ThesisReads, NoCall
    <2>2. CASE GoesWithout(d)
      BY <1>0, <1>b, <2>2 DEF GoesWithout, CallRow
    <2>3. CASE Imagines(d)
      BY <1>0, <1>b, <2>3 DEF Imagines, CallRow
    <2>4. CASE ReplacesWorlds(d)
      <3>1. call'[d].step = "scoring"
        BY <1>0, <2>4 DEF ReplacesWorlds, CallRow
      <3>2. call'[d].axes \subseteq call[d].axes \cup {"counterfactual_robustness"}
        BY <1>0, <2>4 DEF ReplacesWorlds, CallRow
      <3> QED
        BY <1>b, <3>1, <3>2 DEF Computed
    <2>5. CASE Scores(d)
      <3>1. call'[d].axes = {} /\ call'[d].seen = Len(cards')
        BY <1>0, <2>5 DEF Scores, NoCall
      <3>2. Len(cards') \in DOMAIN cards'
        BY <2>5, ScoresFact, ThesisCardType, AppendFact, CardFacts
      <3> QED
        BY <3>1, <3>2
    <2>6. CASE Annotates(d)
      BY <1>0, <2>6 DEF Annotates, NoCall
    <2>7. CASE CallEnds(d)
      BY <1>0, <2>7 DEF CallEnds, NoCall
    <2> QED
      BY <1>3, <2>1, <2>2, <2>3, <2>4, <2>5, <2>6, <2>7 DEF CallStep
  <1> QED
    BY <1>1, <1>2, <1>3, <1>a, <1>b, CallOrNot

\* What OneProducerPerAxis says of one scorecard.
OneProducer(card) ==
    /\ card.axes \cap Unavailable = {}
    /\ "counterfactual_robustness" \in card.axes => card.by = "thesis"
    /\ "logical_coherence" \in card.axes => Judged \subseteq card.axes

LEMMA ThesisProducesOnce ==
    ASSUME TypeOK, CallsMeasure, NEW c \in Caller, NEW axes \in {{}, Judged}
    PROVE  OneProducer(ThesisCard(c, axes))
  <1>1. call[c].axes \subseteq Computed
    BY DEF CallsMeasure
  <1>2. Computed \cap Unavailable = {} /\ Judged \cap Unavailable = {}
        /\ "logical_coherence" \notin Computed
    BY DEF Computed, Unavailable, Judged
  <1> QED
    BY <1>1, <1>2 DEF OneProducer, ThesisCard

LEMMA ProducerStep ==
    TypeOK /\ CallsMeasure /\ OneProducerPerAxis /\ [Next]_vars => OneProducerPerAxis'
  <1> SUFFICES ASSUME TypeOK, CallsMeasure, OneProducerPerAxis, [Next]_vars,
                      NEW i \in DOMAIN cards'
               PROVE  OneProducer(cards'[i])
    BY DEF OneProducerPerAxis, OneProducer
  <1>0. \A j \in DOMAIN cards : OneProducer(cards[j])
    BY DEF OneProducerPerAxis, OneProducer
  <1>1. CASE UNCHANGED cards
    BY <1>0, <1>1
  <1>2. ASSUME NEW w \in Worker, RecordsRisk(w) PROVE OneProducer(cards'[i])
    <2>1. cards' = Append(cards, RiskCard(critic[w].dated))
      BY <1>2 DEF RecordsRisk
    <2>2. OneProducer(RiskCard(critic[w].dated))
      BY DEF OneProducer, RiskCard, Unavailable
    <2> QED
      BY <1>0, <2>1, <2>2, CriticFacts, RiskCardType, AppendFact, CardFacts
  <1>3. ASSUME NEW c \in Caller, Scores(c) PROVE OneProducer(cards'[i])
    <2> PICK axes \in {{}, Judged} : cards' = Append(cards, ThesisCard(c, axes))
      BY <1>3, ScoresFact
    <2>1. OneProducer(ThesisCard(c, axes))
      BY ThesisProducesOnce
    <2> QED
      BY <1>0, <2>1, ThesisCardType, AppendFact, CardFacts
  <1>4. ASSUME NEW c \in Caller, Annotates(c) PROVE OneProducer(cards'[i])
    <2>1. i \in DOMAIN cards /\ cards'[i].by = cards[i].by /\ cards'[i].axes = cards[i].axes
      BY <1>4, AnnotatesFact
    <2> QED
      BY <1>0, <2>1 DEF OneProducer
  <1> QED
    BY <1>1, <1>2, <1>3, <1>4, CardSteps

\* A pass annotates the card it added, unless it is killed.
LEMMA ExplainedStep ==
    TypeOK /\ CallsMeasure /\ UnexplainedCostsAKill /\ [Next]_vars => UnexplainedCostsAKill'
  <1> SUFFICES ASSUME TypeOK, CallsMeasure, UnexplainedCostsAKill, [Next]_vars, kills' = 0,
                      NEW i \in DOMAIN cards', cards'[i].by = "thesis"
               PROVE  \/ cards'[i].explained
                      \/ \E c \in Caller : call'[c].step = "annotating" /\ call'[c].seen = i
    BY DEF UnexplainedCostsAKill
  <1>0. /\ call \in [Caller -> CallRow] /\ kills \in Nat
        /\ \A j \in DOMAIN cards : cards[j] \in CardRow
    BY CardFacts DEF TypeOK
  <1>a. kills = 0
    BY CallOrNot, CallFrame
  <1>1. ASSUME NEW c \in Caller, Scores(c), i = Len(cards) + 1
        PROVE  call'[c].step = "annotating" /\ call'[c].seen = i
    <2>1. call'[c].step = "annotating" /\ call'[c].seen = Len(cards')
      BY <1>0, <1>1 DEF Scores, NoCall
    <2>2. Len(cards') = Len(cards) + 1
      BY <1>1, ScoresFact, ThesisCardType, AppendFact
    <2> QED
      BY <1>1, <2>1, <2>2
  <1>2. CASE i \in DOMAIN cards /\ cards[i].by = "thesis"
    <2>1. cards[i].explained => cards'[i].explained
      BY <1>2, CardsAreKept DEF Keeps
    <2>2. ASSUME NEW c \in Caller, call[c].step = "annotating", call[c].seen = i
          PROVE  \/ cards'[i].explained
                 \/ call'[c].step = "annotating" /\ call'[c].seen = i
      <3>1. CASE UNCHANGED callVars
        BY <2>2, <3>1 DEF callVars
      <3>2. ASSUME NEW d \in Caller, CallStep(d), d # c PROVE call'[c] = call[c]
        BY <3>2, CallFrame
      <3>3. CASE CallStep(c)
        <4>1. Annotates(c) \/ CallEnds(c)
          BY <2>2, <3>3 DEF CallStep, ThesisReads, Begins, GoesWithout, Imagines,
             ReplacesWorlds, Scores
        <4>2. CASE Annotates(c)
          BY <1>2, <2>2, <4>2, AnnotatesFact
        <4>3. CASE CallEnds(c)
          BY <1>0, <2>2, <4>3 DEF CallEnds
        <4> QED
          BY <4>1, <4>2, <4>3
      <3> QED
        BY <2>2, <3>1, <3>2, <3>3, CallOrNot
    <2> QED
      BY <1>2, <1>a, <2>1, <2>2 DEF UnexplainedCostsAKill
  <1> QED
    BY <1>1, <1>2, ThesisCards

LEMMA CardInvStep == TypeOK /\ CardInv /\ [Next]_vars => CardInv'
  BY MeasureStep, ProducerStep, ExplainedStep DEF CardInv

-----------------------------------------------------------------------------
(* The counterfactuals.                                                    *)

OneSet(set) == \A v, w \in set : v.run = w.run /\ (v.assumption = w.assumption => v = w)

\* The worlds of an answer that passed differ in what they remove.
LEMMA AnswerIsOneSet ==
    ASSUME NEW run, NEW answer, DistinctAnswer(answer)
    PROVE  OneSet({[run |-> run, no |-> i, assumption |-> answer[i]] : i \in DOMAIN answer})
  BY DEF OneSet, DistinctAnswer

\* Only an update that sees all there is commits, unless two overlap.
LEMMA WorldInvStep == TypeOK /\ WorldInv /\ [Next]_vars => WorldInv'
  <1> SUFFICES ASSUME TypeOK, ReplacedAlone, WorldsAreOneSet, [Next]_vars
               PROVE  ReplacedAlone' /\ WorldsAreOneSet'
    BY DEF WorldInv
  <1>0. call \in [Caller -> CallRow] /\ doubled \in BOOLEAN
    BY DEF TypeOK
  <1>a. /\ \A d \in Caller : DistinctAnswer(call[d].answer)
        /\ ~doubled =>
              /\ \A c, d \in Caller : call[c].step = "replacing" /\ call[d].step = "replacing"
                                        => c = d
              /\ \A d \in Caller : call[d].step = "replacing" => call[d].stale = worlds
              /\ OneSet(worlds)
    BY DEF ReplacedAlone, WorldsAreOneSet, OneSet
  <1>b. SUFFICES
           /\ \A d \in Caller : DistinctAnswer(call'[d].answer)
           /\ ~doubled' =>
              /\ \A c, d \in Caller : call'[c].step = "replacing" /\ call'[d].step = "replacing"
                                        => c = d
              /\ \A d \in Caller : call'[d].step = "replacing" => call'[d].stale = worlds'
              /\ OneSet(worlds')
    BY <1>b DEF ReplacedAlone, WorldsAreOneSet, OneSet
  <1>1. CASE UNCHANGED callVars /\ (~doubled' => ~doubled)
    BY <1>1, <1>a DEF callVars
  <1>2. ASSUME NEW c \in Caller, CallStep(c)
        PROVE  /\ \A d \in Caller : DistinctAnswer(call'[d].answer)
               /\ ~doubled' =>
                  /\ \A b, d \in Caller : call'[b].step = "replacing" /\ call'[d].step = "replacing"
                                            => b = d
                  /\ \A d \in Caller : call'[d].step = "replacing" => call'[d].stale = worlds'
                  /\ OneSet(worlds')
    <2>a. (~doubled' => ~doubled) /\ \A d \in Caller \ {c} : call'[d] = call[d]
      BY <1>2, CallFrame
    <2>b. DistinctAnswer(<<>>)
      BY DEF DistinctAnswer
    <2>1. CASE Imagines(c)
      <3>1. PICK answer \in DistinctWorlds :
              call' = [call EXCEPT ![c].step = "replacing", ![c].answer = answer,
                                   ![c].stale = worlds]
        BY <2>1 DEF Imagines
      <3>2. call'[c].answer = answer /\ call'[c].stale = worlds
        BY <1>0, <3>1 DEF CallRow
      <3>3. DistinctAnswer(answer)
        BY DEF DistinctWorlds, DistinctAnswer
      <3>4. ~doubled' => \A d \in Caller \ {c} : call[d].step # "replacing"
        BY <2>1 DEF Imagines, Replacing
      <3>5. worlds' = worlds
        BY <2>1 DEF Imagines
      <3> QED
        BY <1>a, <2>a, <3>2, <3>3, <3>4, <3>5
    <2>2. CASE ReplacesWorlds(c)
      <3> DEFINE new == {[run |-> call[c].run, no |-> i, assumption |-> call[c].answer[i]] :
                            i \in DOMAIN call[c].answer}
      <3>1. OneSet(new)
        BY <1>a, AnswerIsOneSet
      <3>2. call[c].step = "replacing" /\ worlds' = (worlds \ call[c].stale) \cup new
        BY <2>2 DEF ReplacesWorlds, Replace
      <3>3. call'[c].step = "scoring" /\ call'[c].answer = <<>>
        BY <1>0, <2>2 DEF ReplacesWorlds, CallRow
      <3> HIDE DEF new
      <3>4. ~doubled => worlds' = new
        BY <1>a, <3>2
      <3> QED
        BY <1>a, <2>a, <2>b, <3>1, <3>2, <3>3, <3>4
    <2>3. CASE UNCHANGED worlds /\ call'[c].step # "replacing"
               /\ DistinctAnswer(call'[c].answer)
      BY <1>a, <2>a, <2>3
    <2>4. CASE ThesisReads(c)
      BY <1>0, <2>3, <2>4, <2>b DEF ThesisReads, NoCall
    <2>5. CASE GoesWithout(c)
      <3>1. call'[c].step = "scoring" /\ call'[c].answer = call[c].answer
        BY <1>0, <2>5 DEF GoesWithout, CallRow
      <3> QED
        BY <1>a, <2>3, <2>5, <3>1 DEF GoesWithout
    <2>6. CASE Scores(c)
      BY <1>0, <2>3, <2>6, <2>b DEF Scores, NoCall
    <2>7. CASE Annotates(c)
      BY <1>0, <2>3, <2>7, <2>b DEF Annotates, NoCall
    <2>8. CASE CallEnds(c)
      BY <1>0, <2>3, <2>8, <2>b DEF CallEnds, NoCall
    <2> QED
      BY <1>2, <2>1, <2>2, <2>4, <2>5, <2>6, <2>7, <2>8 DEF CallStep
  <1> QED
    BY <1>1, <1>2, CallOrNot

-----------------------------------------------------------------------------
(* The invariant.                                                          *)

LEMMA InitHolds == Init => IInv
  <1> SUFFICES ASSUME Init PROVE IInv
    OBVIOUS
  <1>1. /\ \A w \in Worker : critic[w].step = "idle"
        /\ \A c \in Caller : call[c].step = "idle" /\ call[c].answer = <<>> /\ call[c].axes = {}
    BY DEF Init, NoCritique, NoCall
  <1>2. /\ findings = {} /\ stored = -1 /\ cards = <<>> /\ worlds = {}
        /\ DOMAIN cards = {}
    BY DEF Init
  <1>3. HasNewest
    BY ThesisAssumption DEF Init, HasNewest
  <1>4. CriticInv /\ StateInv
    BY <1>1, <1>2 DEF CriticInv, CriticsAlone, AnswersPassed, LeadIsMostSevere, AttackStands,
       StateInv, StatesWereRead, AtWork
  <1>5. RiskInv
    BY <1>1, <1>2 DEF RiskInv, RisksAreDated, BasisWasLatest, RiskFollowsFindings, ByCritic, AtWork
  <1>6. CardInv
    BY <1>1, <1>2 DEF CardInv, CallsMeasure, OneProducerPerAxis, UnexplainedCostsAKill
  <1>7. WorldInv
    BY <1>1, <1>2 DEF WorldInv, ReplacedAlone, DistinctAnswer, WorldsAreOneSet
  <1> QED
    BY <1>3, <1>4, <1>5, <1>6, <1>7, InitType DEF IInv

LEMMA StepHolds == IInv /\ [Next]_vars => IInv'
  BY TypeStep, NewestStep, CriticInvStep, StateInvStep, RiskInvStep, CardInvStep, WorldInvStep
     DEF IInv

LEMMA InvHolds == Spec => []IInv
  BY InitHolds, StepHolds, PTL DEF Spec

-----------------------------------------------------------------------------
(* The properties.                                                         *)

\* What was attacked stays attacked, with the worst of the findings in the lead, and a
\* State no critic has read is found, up to the irregularities the parts name
\* (critic_stage.py, _pending_process_ids, _supersede_open and _store).
THEOREM CritiqueStandsHolds == Spec => []CritiqueStands
  <1>1. IInv => CritiqueStands
    BY PendingFact DEF IInv, CriticInv, CritiqueStands
  <1> QED
    BY <1>1, InvHolds, PTL

\* The scorecards follow the critic: its findings get their risk, what the thesis stage
\* takes over is the risk recorded last, no axis is scored twice, and a card is explained
\* unless a kill came between (critic_stage.py, run; thesis_stage.py, _falsification_risk,
\* _score and _annotate).
THEOREM ScoresFollowTheCriticHolds == Spec => []ScoresFollowTheCritic
  <1>1. IInv => ScoresFollowTheCritic
    BY LastOfLatest DEF IInv, RiskInv, CardInv, ScoresFollowTheCritic
  <1> QED
    BY <1>1, InvHolds, PTL

\* The current counterfactuals are of one pass and challenge different assumptions, unless
\* two replacements overlapped (thesis_stage.py, _counterfactuals).
THEOREM WorldsAreOneSetHolds == Spec => []WorldsAreOneSet
  <1>1. IInv => WorldsAreOneSet
    BY DEF IInv, WorldInv
  <1> QED
    BY <1>1, InvHolds, PTL
=============================================================================

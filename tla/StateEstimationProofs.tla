----------------------- MODULE StateEstimationProofs -----------------------
(***************************************************************************)
(* Proofs about StateEstimation: every belief has its revision, a Process  *)
(* keeps the Archetype it was given, a State follows the one before it by  *)
(* a permitted move, and the State read as latest is the one estimated     *)
(* last, up to the irregularities each property names.                     *)
(***************************************************************************)
EXTENDS StateEstimation, SequenceTheorems, WellFoundedInduction, TLAPS

StateRow == [archetype : Archetype, label : Label, observed : Nat,
             recorded : Nat, features : SUBSET Feature,
             measured : SUBSET Feature, previous : Label \cup {None}]
PassRow == [step : {"idle", "classifying", "applying", "classified", "asked"},
            asOf : Nat, archetype : Archetype \cup {None}, saw : Nat,
            prior : Label \cup {None}, measured : SUBSET Feature]

\* No event is dated later than now.
Dated == evidence \subseteq 0..clock

\* A pass that has an Archetype to write or to ask about knows which.
Staged ==
    \A w \in Worker : pass[w].step \in {"applying", "classified", "asked"} =>
        pass[w].archetype \in Archetype

\* What discovery has read is not ahead of the row, and if it is the row, the
\* Archetype is the row's.
UpdateIsCurrent ==
    /\ update.saw <= process.rev
    /\ update.saw = process.rev => update.archetype = process.archetype

\* Passes are one at a time until one overlaps.
OnePass ==
    overlaps = 0 =>
        \A v, w \in Worker : pass[v].step # "idle" /\ pass[w].step # "idle" => v = w

\* A pass that is alone classifies a Process without an Archetype, and then asks
\* about the one the Process has.
ClassifiedOnce ==
    overlaps = 0 =>
        \A w \in Worker :
            /\ pass[w].step \in {"classifying", "applying"} => process.archetype = None
            /\ pass[w].step \in {"classified", "asked"} => process.archetype = pass[w].archetype

\* The prior a single pass was given is the one it will find when it stores.
PriorIsCurrent ==
    overlaps = 0 =>
        \A w \in Worker, a \in Archetype :
            pass[w].step = "asked" /\ pass[w].archetype = a => pass[w].prior = PriorUnder(a)

\* One of the States is the latest.
SomeIsLatest == states # <<>> => \E i \in DOMAIN states : IsLatest(i)

\* Evidence is never older than what was estimated from it.
EstimatesAreDated ==
    redates = 0 /\ ~undated =>
        /\ \A i \in DOMAIN states : \E t \in evidence : states[i].observed <= t
        /\ \A w \in Worker : pass[w].step # "idle" => \E t \in evidence : pass[w].asOf <= t

\* Single passes estimate one after another, each from newer evidence or the same.
EstimatesAreOrdered ==
    overlaps = 0 /\ redates = 0 /\ ~undated =>
        /\ \A i, j \in DOMAIN states : i <= j => states[i].observed <= states[j].observed
        /\ \A w \in Worker : pass[w].step # "idle" =>
              \A i \in DOMAIN states : states[i].observed <= pass[w].asOf

\* What a pass calls measured is in a recorded State.
MeasuredIsRecorded ==
    \A w \in Worker : \A f \in pass[w].measured :
        \E j \in DOMAIN states : f \in states[j].features

MovesArePermitted == overlaps = 0 => \A i \in DOMAIN states : FollowsItsPrior(states[i])

TypeInv   == TypeOK /\ Dated /\ Staged
RowInv    == RevisionPerBelief /\ UpdateIsCurrent
SingleInv == OnePass /\ ClassifiedOnce
PriorInv  == PriorIsCurrent /\ MovesArePermitted
OrderInv  == SomeIsLatest /\ EstimatesAreDated /\ EstimatesAreOrdered
FeatureInv == MeasuredIsRecorded /\ MeasuredWasRecorded
IInv == TypeInv /\ RowInv /\ SingleInv /\ PriorInv /\ OrderInv /\ FeatureInv

-----------------------------------------------------------------------------
(* Lemmas.                                                                 *)

\* A set of natural numbers has a least member.
LEMMA LeastMember ==
    ASSUME NEW S \in SUBSET Nat, S # {}
    PROVE  \E x \in S : \A y \in S : x <= y
  <1>1. PICK x \in S : \A y \in S : ~ (<<y, x>> \in OpToRel(<, Nat))
    BY NatLessThanWellFounded, WFMin, Zenon
  <1>2. ASSUME NEW y \in Nat, NEW z \in Nat, y < z PROVE <<y, z>> \in OpToRel(<, Nat)
    BY <1>2, Zenon DEF OpToRel
  <1>3. \A y \in S : ~(y < x)
    BY <1>1, <1>2, Zenon
  <1> QED
    BY <1>3

\* A bounded set of natural numbers has a greatest one.
LEMMA GreatestMember ==
    ASSUME NEW b \in Nat, NEW S \in SUBSET (0..b), S # {}
    PROVE  \E x \in S : \A y \in S : y <= x
  <1> DEFINE T == {b - t : t \in S}
  <1>1. T \in SUBSET Nat /\ T # {}
    <2>1. \A t \in S : b - t \in Nat
      OBVIOUS
    <2> QED
      BY <2>1
  <1>2. PICK x \in T : \A y \in T : x <= y
    BY <1>1, LeastMember, Zenon
  <1>3. PICK t \in S : x = b - t
    BY <1>2
  <1>4. ASSUME NEW u \in S PROVE u <= t
    <2>1. b - t <= b - u
      BY <1>2, <1>3
    <2> QED
      BY <2>1
  <1> QED
    BY <1>4

\* The date of the newest evidence.
LEMMA NewestEvidence ==
    ASSUME TypeInv
    PROVE  /\ AsOf \in Nat
           /\ evidence # {} => AsOf \in evidence /\ \A u \in evidence : u <= AsOf
  <1>1. CASE evidence = {}
    BY <1>1 DEF TypeInv, TypeOK, AsOf
  <1>2. CASE evidence # {}
    <2>1. clock \in Nat /\ evidence \in SUBSET (0..clock)
      BY DEF TypeInv, TypeOK, Dated
    <2>2. \E t \in evidence : \A u \in evidence : u <= t
      BY <1>2, <2>1, GreatestMember, Zenon
    <2>3. AsOf \in evidence /\ \A u \in evidence : u <= AsOf
      BY <1>2, <2>2, Zenon DEF AsOf
    <2> QED
      BY <2>1, <2>3
  <1> QED
    BY <1>1, <1>2

\* The latest State, where there is one, is one of the States.
LEMMA LatestIsOne ==
    ASSUME SomeIsLatest, states # <<>>
    PROVE  Latest \in DOMAIN states /\ IsLatest(Latest)
  BY Zenon DEF SomeIsLatest, Latest

\* Each State and each pass is a row of its kind.
LEMMA StatesAreRows ==
    ASSUME TypeInv
    PROVE  /\ states \in Seq(StateRow)
           /\ \A i \in DOMAIN states : states[i] \in StateRow
           /\ pass \in [Worker -> PassRow]
  <1>1. states \in Seq(StateRow) /\ pass \in [Worker -> PassRow]
    BY DEF TypeInv, TypeOK, StateRow, PassRow
  <1> QED
    BY <1>1

\* What a pass reads of the latest State: a prior, and features that were recorded.
LEMMA LatestFacts ==
    ASSUME TypeInv, SomeIsLatest, NEW a \in Archetype
    PROVE  /\ PriorUnder(a) \in Label \cup {None}
           /\ LatestFeatures \in SUBSET Feature
           /\ \A f \in LatestFeatures : \E j \in DOMAIN states : f \in states[j].features
  <1>1. CASE states = <<>>
    BY <1>1 DEF PriorUnder, LatestFeatures
  <1>2. CASE states # <<>>
    <2>1. Latest \in DOMAIN states
      BY <1>2, LatestIsOne
    <2>2. states[Latest] \in StateRow
      BY <2>1, StatesAreRows
    <2>3. states[Latest].label \in Label /\ states[Latest].features \in SUBSET Feature
      BY <2>2 DEF StateRow
    <2> QED
      BY <1>2, <2>1, <2>3 DEF PriorUnder, LatestFeatures
  <1> QED
    BY <1>1, <1>2

\* The initial state satisfies the invariant.
LEMMA InitHolds == Init => IInv
  <1> SUFFICES ASSUME Init PROVE IInv
    OBVIOUS
  <1> USE DEF Init, Idle
  <1>1. TypeInv
    <2>1. Idle \in PassRow /\ <<>> \in Seq(StateRow)
      BY DEF PassRow
    <2>2. TypeOK
      BY <2>1 DEF TypeOK, StateRow, PassRow
    <2>3. Dated /\ Staged
      BY DEF Dated, Staged
    <2> QED
      BY <2>2, <2>3 DEF TypeInv
  <1>2. RowInv
    BY DEF RowInv, RevisionPerBelief, UpdateIsCurrent
  <1>3. SingleInv
    BY DEF SingleInv, OnePass, ClassifiedOnce
  <1>4. PriorInv
    BY DEF PriorInv, PriorIsCurrent, MovesArePermitted
  <1>5. OrderInv
    BY DEF OrderInv, SomeIsLatest, EstimatesAreDated, EstimatesAreOrdered
  <1>6. FeatureInv
    BY DEF FeatureInv, MeasuredIsRecorded, MeasuredWasRecorded
  <1> QED
    BY <1>1, <1>2, <1>3, <1>4, <1>5, <1>6 DEF IInv

-----------------------------------------------------------------------------
(* What each step of a pass leaves.                                        *)

\* The row of one pass is replaced.
Becomes(w, r) ==
    /\ r \in PassRow
    /\ pass' \in [Worker -> PassRow]
    /\ pass'[w] = r
    /\ \A v \in Worker \ {w} : pass'[v] = pass[v]

LEMMA BecomesFacts ==
    ASSUME TypeInv, NEW w \in Worker, NEW r \in PassRow, pass' = [pass EXCEPT ![w] = r]
    PROVE  Becomes(w, r)
  BY StatesAreRows DEF Becomes

LEMMA IdleIsARow == Idle \in PassRow /\ Idle.step = "idle" /\ Idle.measured = {}
  BY DEF Idle, PassRow

\* A pass that begins has read the row and the date of the newest evidence.
LEMMA StartsFacts ==
    ASSUME TypeInv, NEW w \in Worker, Starts(w)
    PROVE  \E r \in PassRow :
              /\ Becomes(w, r)
              /\ r.asOf = AsOf /\ r.archetype = process.archetype /\ r.measured = {}
              /\ \/ r.step = "classifying" /\ process.archetype = None
                 \/ r.step = "classified" /\ process.archetype \in Archetype
  <1> DEFINE r == [Idle EXCEPT !.asOf = AsOf, !.archetype = process.archetype,
                     !.step = IF NeedsArchetype THEN "classifying" ELSE "classified"]
  <1>1. process.archetype \in Archetype \cup {None}
    BY DEF TypeInv, TypeOK
  <1>2. r \in PassRow
    BY <1>1, NewestEvidence DEF Idle, PassRow
  <1>3. Becomes(w, r)
    BY <1>2, BecomesFacts DEF Starts
  <1>4. r.asOf = AsOf /\ r.archetype = process.archetype /\ r.measured = {}
    BY DEF Idle
  <1>5. \/ r.step = "classifying" /\ process.archetype = None
        \/ r.step = "classified" /\ process.archetype \in Archetype
    BY <1>1 DEF Idle, NeedsArchetype
  <1> QED
    BY <1>2, <1>3, <1>4, <1>5

LEMMA EndsFacts ==
    ASSUME TypeInv, NEW w \in Worker, pass' = [pass EXCEPT ![w] = Idle]
    PROVE  Becomes(w, Idle)
  BY IdleIsARow, BecomesFacts

LEMMA ClassifyReadsFacts ==
    ASSUME TypeInv, NEW w \in Worker, ClassifyReads(w)
    PROVE  \E r \in PassRow :
              /\ Becomes(w, r)
              /\ r.step = "applying" /\ r.archetype \in Archetype /\ r.saw = process.rev
              /\ r.asOf = pass[w].asOf /\ r.measured = pass[w].measured
  <1>1. PICK a \in Archetype :
           pass' = [pass EXCEPT ![w] = [pass[w] EXCEPT !.step = "applying", !.archetype = a,
                                                       !.saw = process.rev]]
    BY StatesAreRows DEF ClassifyReads
  <1> DEFINE r == [pass[w] EXCEPT !.step = "applying", !.archetype = a, !.saw = process.rev]
  <1>2. pass[w] \in PassRow /\ process.rev \in Nat
    BY StatesAreRows DEF TypeInv, TypeOK
  <1>3. /\ r \in PassRow
        /\ r.step = "applying" /\ r.archetype \in Archetype /\ r.saw = process.rev
        /\ r.asOf = pass[w].asOf /\ r.measured = pass[w].measured
    BY <1>2 DEF PassRow
  <1>4. Becomes(w, r)
    BY <1>1, <1>3, BecomesFacts
  <1> QED
    BY <1>3, <1>4

LEMMA ClassifiesFacts ==
    ASSUME TypeInv, NEW w \in Worker, Classifies(w)
    PROVE  \E r \in PassRow :
              /\ Becomes(w, r)
              /\ r.step = "classified" /\ r.archetype = pass[w].archetype
              /\ r.asOf = pass[w].asOf /\ r.measured = pass[w].measured
  <1>1. pass' = [pass EXCEPT ![w] = [pass[w] EXCEPT !.step = "classified", !.saw = 0]]
    BY StatesAreRows DEF Classifies
  <1> DEFINE r == [pass[w] EXCEPT !.step = "classified", !.saw = 0]
  <1>2. pass[w] \in PassRow
    BY StatesAreRows
  <1>3. /\ r \in PassRow
        /\ r.step = "classified" /\ r.archetype = pass[w].archetype
        /\ r.asOf = pass[w].asOf /\ r.measured = pass[w].measured
    BY <1>2 DEF PassRow
  <1>4. Becomes(w, r)
    BY <1>1, <1>3, BecomesFacts
  <1> QED
    BY <1>3, <1>4

\* A pass that asks has read the latest State.
LEMMA AsksFacts ==
    ASSUME TypeInv, SomeIsLatest, NEW w \in Worker, Asks(w)
    PROVE  \E r \in PassRow :
              /\ Becomes(w, r)
              /\ r.step = "asked" /\ r.archetype = pass[w].archetype
              /\ r.asOf = pass[w].asOf /\ r.prior = PriorUnder(r.archetype)
              /\ \A f \in r.measured : \E j \in DOMAIN states : f \in states[j].features
  <1> DEFINE r == [pass[w] EXCEPT !.step = "asked", !.prior = PriorUnder(pass[w].archetype),
                                  !.measured = LatestFeatures]
  <1>1. pass' = [pass EXCEPT ![w] = r]
    BY StatesAreRows DEF Asks
  <1>2. pass[w] \in PassRow
    BY StatesAreRows
  <1>3. pass[w].archetype \in Archetype
    BY DEF Asks, TypeInv, Staged
  <1>4. /\ PriorUnder(pass[w].archetype) \in Label \cup {None}
        /\ LatestFeatures \in SUBSET Feature
        /\ \A f \in LatestFeatures : \E j \in DOMAIN states : f \in states[j].features
    BY <1>3, LatestFacts
  <1>5. /\ r \in PassRow
        /\ r.step = "asked" /\ r.archetype = pass[w].archetype
        /\ r.asOf = pass[w].asOf /\ r.prior = PriorUnder(pass[w].archetype)
        /\ r.measured = LatestFeatures
    BY <1>2, <1>4 DEF PassRow
  <1>6. Becomes(w, r)
    BY <1>1, <1>5, BecomesFacts
  <1> QED
    BY <1>4, <1>5, <1>6

\* What is recorded follows from what the pass was asked with.
LEMMA RecordsFacts ==
    ASSUME TypeInv, SomeIsLatest, NEW w \in Worker, Records(w)
    PROVE  \E s \in StateRow :
              /\ states' = Append(states, s)
              /\ s.archetype = pass[w].archetype /\ s.observed = pass[w].asOf
              /\ s.measured \subseteq pass[w].measured
              /\ s.previous = PriorUnder(s.archetype)
              /\ Permitted(Machines[s.archetype], pass[w].prior, s.label)
  <1> DEFINE a == pass[w].archetype
  <1>1. PICK label \in Label, answer \in SUBSET Feature :
           /\ Permitted(Machines[a], pass[w].prior, label)
           /\ states' = Append(states,
                 [archetype |-> a, label |-> label, observed |-> pass[w].asOf,
                  recorded |-> clock', features |-> answer,
                  measured |-> MeasuredOf(answer, pass[w].measured),
                  previous |-> PriorUnder(a)])
    BY DEF Records
  <1> DEFINE s == [archetype |-> a, label |-> label, observed |-> pass[w].asOf,
                   recorded |-> clock', features |-> answer,
                   measured |-> MeasuredOf(answer, pass[w].measured), previous |-> PriorUnder(a)]
  <1>2. a \in Archetype
    BY DEF Records, TypeInv, Staged
  <1>3. PriorUnder(a) \in Label \cup {None}
    BY <1>2, LatestFacts
  <1>4. clock' \in Nat
    BY DEF Records, Commits, TypeInv, TypeOK
  <1>5. pass[w].asOf \in Nat /\ MeasuredOf(answer, pass[w].measured) \in SUBSET Feature
    BY StatesAreRows DEF PassRow, MeasuredOf
  <1>6. s \in StateRow
    BY <1>2, <1>3, <1>4, <1>5 DEF StateRow
  <1>7. s.measured \subseteq pass[w].measured
    BY DEF MeasuredOf
  <1> QED
    BY <1>1, <1>6, <1>7

-----------------------------------------------------------------------------
(* Every step preserves the invariant.                                     *)

\* The steps of a pass that write neither the States nor the row.
PassOnly(w) == Starts(w) \/ Ends(w) \/ ClassifyReads(w) \/ Asks(w)

\* The types of the single rows.
LEMMA TypeFacts ==
    ASSUME TypeInv
    PROVE  /\ clock \in Nat /\ evidence \subseteq Nat
           /\ process \in [rev : Nat, archetype : Archetype \cup {None}, created : Nat]
           /\ process.rev \in Nat /\ process.archetype \in Archetype \cup {None}
           /\ beliefAt \in Nat /\ beliefs \in Nat
           /\ update \in [saw : Nat, archetype : Archetype \cup {None}]
           /\ update.saw \in Nat /\ update.archetype \in Archetype \cup {None}
           /\ updates \in Nat /\ overlaps \in Nat /\ redates \in Nat /\ undated \in BOOLEAN
  BY DEF TypeInv, TypeOK

\* A revision of the row.
LEMMA RevisesFacts ==
    ASSUME TypeInv, NEW saw, NEW a \in Archetype \cup {None}, Revises(saw, a)
    PROVE  /\ saw = process.rev
           /\ process' \in [rev : Nat, archetype : Archetype \cup {None}, created : Nat]
           /\ process'.rev = process.rev + 1 /\ process'.archetype = a
           /\ clock' = clock + 1 /\ clock' \in Nat
           /\ beliefAt' \in Nat /\ beliefs' = beliefs + 1
  BY TypeFacts DEF Revises, Unwritten, Commits

\* The type invariant by what is written together.
WorldTyped == clock \in Nat /\ evidence \subseteq 0..clock
RowTyped ==
    /\ process \in [rev : Nat, archetype : Archetype \cup {None}, created : Nat]
    /\ beliefAt \in Nat /\ beliefs \in Nat /\ states \in Seq(StateRow)
UpdateTyped == update \in [saw : Nat, archetype : Archetype \cup {None}]
PassTyped == pass \in [Worker -> PassRow] /\ Staged
CountTyped == updates \in Nat /\ overlaps \in Nat /\ redates \in Nat /\ undated \in BOOLEAN

\* The types through a step.
LEMMA TypeStep == ASSUME IInv, [Next]_vars PROVE TypeInv'
  <1>0. TypeInv
    BY DEF IInv
  <1> USE <1>0
  <1>1. TypeOK
    BY DEF TypeInv
  <1>p. ASSUME NEW w \in Worker, NEW r \in PassRow, Becomes(w, r),
               r.step \in {"applying", "classified", "asked"} => r.archetype \in Archetype
        PROVE  PassTyped'
    BY <1>p DEF Becomes, Staged, PassTyped, TypeInv
  <1>q. ASSUME WorldTyped', RowTyped', UpdateTyped', PassTyped', CountTyped' PROVE TypeInv'
    <2>1. Dated' /\ Staged' /\ evidence' \subseteq Nat
      BY <1>q DEF WorldTyped, PassTyped, Dated
    <2>2. TypeOK'
      BY <1>q, <2>1 DEF TypeOK, StateRow, PassRow, WorldTyped, RowTyped, UpdateTyped, PassTyped, CountTyped
    <2> QED
      BY <2>1, <2>2 DEF TypeInv
  <1>d. evidence \subseteq 0..clock /\ evidence \subseteq 0..(clock + 1)
    BY TypeFacts DEF TypeInv, Dated
  <1>k. /\ UNCHANGED worldVars => WorldTyped'
        /\ clock' = clock + 1 /\ evidence' = evidence => WorldTyped'
        /\ UNCHANGED rowVars => RowTyped'
        /\ UNCHANGED update => UpdateTyped'
        /\ UNCHANGED pass => PassTyped'
        /\ UNCHANGED countVars => CountTyped'
    <2>1. UNCHANGED worldVars => WorldTyped'
      BY <1>d, TypeFacts DEF WorldTyped, worldVars
    <2>2. clock' = clock + 1 /\ evidence' = evidence => WorldTyped'
      BY <1>d, TypeFacts DEF WorldTyped
    <2>3. UNCHANGED rowVars => RowTyped'
      BY TypeFacts, StatesAreRows DEF RowTyped, rowVars
    <2>4. UNCHANGED update => UpdateTyped'
      BY TypeFacts DEF UpdateTyped
    <2>5. UNCHANGED pass => PassTyped'
      BY StatesAreRows DEF PassTyped, Staged, TypeInv
    <2>6. UNCHANGED countVars => CountTyped'
      BY TypeFacts DEF CountTyped, countVars
    <2> QED
      BY <2>1, <2>2, <2>3, <2>4, <2>5, <2>6
  <1>2. CASE UNCHANGED vars
    BY <1>2 DEF TypeInv, TypeOK, Dated, Staged, vars, worldVars, rowVars, countVars
  <1>3. CASE Links \/ Redates
    <2>1. /\ clock' = clock + 1 /\ redates' \in Nat
          /\ evidence' \subseteq 0..clock'
          /\ UNCHANGED <<rowVars, update, pass, updates, overlaps, undated>>
      <3>1. CASE Links
        <4>1. PICK t \in 0..(clock + 1) : evidence' = evidence \cup {t}
          BY <3>1 DEF Links
        <4> QED
          BY <3>1, <4>1, <1>d, TypeFacts DEF Links, Commits, countVars
      <3>2. CASE Redates
        <4>1. PICK t \in evidence, u \in 0..clock : evidence' = (evidence \ {t}) \cup {u}
          BY <3>2 DEF Redates
        <4> QED
          BY <3>2, <4>1, <1>d, TypeFacts DEF Redates, Commits
      <3> QED
        BY <1>3, <3>1, <3>2
    <2>2. WorldTyped' /\ CountTyped'
      BY <2>1, TypeFacts DEF WorldTyped, CountTyped
    <2> QED
      BY <2>1, <2>2, <1>q, <1>k
  <1>4. CASE UpdateReads \/ UpdateRaises
    <2>1. /\ update' \in [saw : Nat, archetype : Archetype \cup {None}] /\ updates' \in Nat
          /\ UNCHANGED <<worldVars, rowVars, pass, overlaps, redates, undated>>
      BY <1>4, TypeFacts DEF UpdateReads, UpdateRaises, countVars
    <2>2. UpdateTyped' /\ CountTyped'
      BY <2>1, TypeFacts DEF UpdateTyped, CountTyped
    <2> QED
      BY <2>1, <2>2, <1>q, <1>k
  <1>5. CASE UpdateWrites
    <2>1. /\ clock' = clock + 1 /\ clock' \in Nat
          /\ process' \in [rev : Nat, archetype : Archetype \cup {None}, created : Nat]
          /\ beliefAt' \in Nat /\ beliefs' \in Nat
      BY <1>5, TypeFacts, RevisesFacts DEF UpdateWrites
    <2>2. /\ update' \in [saw : Nat, archetype : Archetype \cup {None}]
          /\ UNCHANGED <<evidence, states, pass, countVars>>
      BY <1>5 DEF UpdateWrites
    <2>3. RowTyped' /\ UpdateTyped'
      BY <2>1, <2>2, StatesAreRows DEF RowTyped, UpdateTyped
    <2> QED
      BY <2>1, <2>2, <2>3, <1>q, <1>k
  <1>6. ASSUME NEW w \in Worker, PassOnly(w) PROVE TypeInv'
    <2>1. \E r \in PassRow :
            /\ Becomes(w, r)
            /\ r.step \in {"applying", "classified", "asked"} => r.archetype \in Archetype
      <3>1. CASE Starts(w)
        BY <3>1, StartsFacts
      <3>2. CASE Ends(w)
        BY <3>2, EndsFacts, IdleIsARow DEF Ends
      <3>3. CASE ClassifyReads(w)
        BY <3>3, ClassifyReadsFacts
      <3>4. CASE Asks(w)
        BY <3>4, AsksFacts DEF IInv, OrderInv, Asks, TypeInv, Staged
      <3> QED
        BY <1>6, <3>1, <3>2, <3>3, <3>4 DEF PassOnly
    <2>2. PassTyped'
      BY <2>1, <1>p
    <2>3. /\ overlaps' \in Nat /\ undated' \in BOOLEAN
          /\ UNCHANGED <<worldVars, rowVars, update, updates, redates>>
      <3>1. CASE Starts(w)
        <4>1. overlaps' = IF \E v \in Worker \ {w} : pass[v].step # "idle"
                          THEN overlaps + 1 ELSE overlaps
          BY <3>1 DEF Starts
        <4> QED
          BY <3>1, <4>1, TypeFacts DEF Starts
      <3>2. CASE Ends(w) \/ ClassifyReads(w) \/ Asks(w)
        BY <3>2, TypeFacts DEF Ends, ClassifyReads, Asks, countVars
      <3> QED
        BY <1>6, <3>1, <3>2 DEF PassOnly
    <2> QED
      <3>1. CountTyped'
        BY <2>3, TypeFacts DEF CountTyped
      <3> QED
        BY <2>2, <2>3, <3>1, <1>q, <1>k
  <1>7. ASSUME NEW w \in Worker, Classifies(w) PROVE TypeInv'
    <2>1. pass[w].archetype \in Archetype
      BY <1>7 DEF Classifies, TypeInv, Staged
    <2>2. PassTyped'
      BY <1>7, <2>1, ClassifiesFacts, <1>p
    <2>3. /\ clock' = clock + 1 /\ clock' \in Nat
          /\ process' \in [rev : Nat, archetype : Archetype \cup {None}, created : Nat]
          /\ beliefAt' \in Nat /\ beliefs' \in Nat
      BY <1>7, <2>1, TypeFacts, RevisesFacts DEF Classifies
    <2>4. UNCHANGED <<evidence, states, update, countVars>>
      BY <1>7 DEF Classifies
    <2>5. RowTyped'
      BY <2>3, <2>4, StatesAreRows DEF RowTyped
    <2> QED
      BY <2>2, <2>3, <2>4, <2>5, <1>q, <1>k
  <1>8. ASSUME NEW w \in Worker, Records(w) PROVE TypeInv'
    <2>1. PassTyped'
      BY <1>8, EndsFacts, IdleIsARow, <1>p DEF Records
    <2>2. states' \in Seq(StateRow)
      BY <1>8, RecordsFacts, StatesAreRows, AppendProperties DEF IInv, OrderInv
    <2>3. /\ clock' = clock + 1
          /\ UNCHANGED <<evidence, process, beliefAt, beliefs, update, countVars>>
      BY <1>8 DEF Records, Commits
    <2>4. RowTyped'
      BY <2>2, <2>3, TypeFacts DEF RowTyped
    <2> QED
      BY <2>1, <2>3, <2>4, <1>q, <1>k
  <1> QED
    BY <1>2, <1>3, <1>4, <1>5, <1>6, <1>7, <1>8 DEF Next, PassOnly

\* The steps by who writes what: the pass alone, the row, the States, or neither.
LEMMA StepCases ==
    ASSUME [Next]_vars
    PROVE  \/ UNCHANGED <<process, beliefs, update, states, pass, overlaps>>
           \/ UpdateReads \/ UpdateWrites \/ UpdateRaises
           \/ \E w \in Worker : PassOnly(w) \/ Classifies(w) \/ Records(w)
  <1>1. CASE Links \/ Redates
    BY <1>1 DEF Links, Redates, rowVars, countVars
  <1>2. CASE UNCHANGED vars
    BY <1>2 DEF vars, rowVars, countVars
  <1> QED
    BY <1>1, <1>2 DEF Next, PassOnly

LEMMA RowStep == ASSUME IInv, [Next]_vars PROVE RowInv'
  <1>1. /\ process.rev \in Nat /\ beliefs \in Nat /\ update.saw \in Nat
        /\ process.rev = 1 + beliefs /\ update.saw <= process.rev
        /\ update.saw = process.rev => update.archetype = process.archetype
    BY TypeFacts DEF IInv, RowInv, RevisionPerBelief, UpdateIsCurrent
  <1>q. ASSUME process'.rev = 1 + beliefs', update'.saw <= process'.rev,
               update'.saw = process'.rev => update'.archetype = process'.archetype
        PROVE  RowInv'
    BY <1>q DEF RowInv, RevisionPerBelief, UpdateIsCurrent
  <1>2. CASE UNCHANGED <<process, beliefs, update>>
    BY <1>2, <1>1, <1>q
  <1>3. CASE UpdateReads
    BY <1>3, <1>1, <1>q DEF UpdateReads, rowVars
  <1>4. CASE UpdateRaises
    BY <1>4, <1>1, <1>q DEF UpdateRaises, rowVars
  <1>5. CASE UpdateWrites
    BY <1>5, <1>1, <1>q, RevisesFacts, TypeFacts DEF UpdateWrites, IInv
  <1>6. ASSUME NEW w \in Worker, Classifies(w) PROVE RowInv'
    <2>1. pass[w].archetype \in Archetype
      BY <1>6 DEF Classifies, IInv, TypeInv, Staged
    <2> QED
      BY <1>6, <2>1, <1>1, <1>q, RevisesFacts DEF Classifies, IInv
  <1>7. ASSUME NEW w \in Worker, PassOnly(w) \/ Records(w) PROVE RowInv'
    BY <1>7, <1>2 DEF PassOnly, Starts, Ends, ClassifyReads, Asks, Records, rowVars
  <1> QED
    BY <1>2, <1>3, <1>4, <1>5, <1>6, <1>7, StepCases

\* A count of overlaps never falls, and a pass that begins beside another raises it.
LEMMA OverlapsGrow ==
    ASSUME IInv, [Next]_vars
    PROVE  /\ overlaps' = 0 => overlaps = 0
           /\ \A w \in Worker : Starts(w) /\ overlaps' = 0 =>
                 \A v \in Worker \ {w} : pass[v].step = "idle"
  <1>1. overlaps \in Nat
    BY TypeFacts DEF IInv
  <1>2. ASSUME NEW w \in Worker, Starts(w)
        PROVE  overlaps' = 0 => overlaps = 0 /\ \A v \in Worker \ {w} : pass[v].step = "idle"
    BY <1>1, <1>2 DEF Starts
  <1>3. ASSUME NEW w \in Worker, Ends(w) \/ ClassifyReads(w) \/ Asks(w) \/ Classifies(w) \/ Records(w)
        PROVE  overlaps' = overlaps
    BY <1>3 DEF Ends, ClassifyReads, Asks, Classifies, Records, countVars
  <1>4. UpdateReads \/ UpdateWrites \/ UpdateRaises => overlaps' = overlaps
    BY DEF UpdateReads, UpdateWrites, UpdateRaises, countVars
  <1>5. overlaps' = 0 => overlaps = 0
    BY <1>2, <1>3, <1>4, StepCases DEF PassOnly
  <1> QED
    BY <1>2, <1>5

\* What a pass does to the steps and the Archetypes of the passes.
LEMMA PassSteps ==
    ASSUME IInv, NEW w \in Worker, PassOnly(w) \/ Classifies(w) \/ Records(w)
    PROVE  \E r \in PassRow :
              /\ Becomes(w, r)
              /\ r.step # "idle" /\ pass[w].step = "idle" => Starts(w)
              /\ r.step \in {"classifying", "applying"} =>
                    process.archetype = None \/ pass[w].step = "classifying"
              /\ r.step \in {"classified", "asked"} =>
                    \/ Starts(w) /\ r.archetype = process.archetype
                    \/ Classifies(w) /\ r.archetype = pass[w].archetype
                    \/ pass[w].step = "classified" /\ r.archetype = pass[w].archetype
              /\ r.step = "asked" => Asks(w) /\ r.prior = PriorUnder(r.archetype)
  <1> USE DEF IInv
  <1>1. CASE Starts(w)
    BY <1>1, StartsFacts DEF Starts
  <1>2. CASE Ends(w) \/ Records(w)
    BY <1>2, EndsFacts, IdleIsARow DEF Ends, Records
  <1>3. CASE ClassifyReads(w)
    BY <1>3, ClassifyReadsFacts DEF ClassifyReads
  <1>4. CASE Asks(w)
    BY <1>4, AsksFacts DEF Asks, OrderInv
  <1>5. CASE Classifies(w)
    BY <1>5, ClassifiesFacts DEF Classifies
  <1> QED
    BY <1>1, <1>2, <1>3, <1>4, <1>5 DEF PassOnly

LEMMA SingleStep == ASSUME IInv, [Next]_vars PROVE SingleInv'
  <1> SUFFICES ASSUME overlaps' = 0 PROVE SingleInv'
    BY DEF SingleInv, OnePass, ClassifiedOnce
  <1>1. overlaps = 0
    BY OverlapsGrow
  <1>2. /\ \A v, w \in Worker : pass[v].step # "idle" /\ pass[w].step # "idle" => v = w
        /\ \A w \in Worker :
              /\ pass[w].step \in {"classifying", "applying"} => process.archetype = None
              /\ pass[w].step \in {"classified", "asked"} => process.archetype = pass[w].archetype
    BY <1>1 DEF IInv, SingleInv, OnePass, ClassifiedOnce
  <1>3. CASE pass' = pass /\ process'.archetype = process.archetype
    BY <1>2, <1>3 DEF SingleInv, OnePass, ClassifiedOnce
  <1>4. CASE UNCHANGED <<process, beliefs, update, states, pass, overlaps>> \/ UpdateReads \/ UpdateRaises
    BY <1>3, <1>4 DEF UpdateReads, UpdateRaises, rowVars
  <1>5. CASE UpdateWrites
    <2>1. process'.archetype = process.archetype
      BY <1>5, RevisesFacts, TypeFacts DEF UpdateWrites, IInv, RowInv, UpdateIsCurrent
    <2> QED
      BY <1>3, <1>5, <2>1 DEF UpdateWrites
  <1>6. ASSUME NEW w \in Worker, PassOnly(w) \/ Classifies(w) \/ Records(w) PROVE SingleInv'
    <2>1. PICK r \in PassRow :
              /\ Becomes(w, r)
              /\ r.step # "idle" /\ pass[w].step = "idle" => Starts(w)
              /\ r.step \in {"classifying", "applying"} =>
                    process.archetype = None \/ pass[w].step = "classifying"
              /\ r.step \in {"classified", "asked"} =>
                    \/ Starts(w) /\ r.archetype = process.archetype
                    \/ Classifies(w) /\ r.archetype = pass[w].archetype
                    \/ pass[w].step = "classified" /\ r.archetype = pass[w].archetype
      BY <1>6, PassSteps
    <2>2. /\ pass'[w] = r
          /\ \A v \in Worker \ {w} : pass'[v] = pass[v]
      BY <2>1 DEF Becomes
    <2>3. Starts(w) => \A v \in Worker \ {w} : pass[v].step = "idle"
      BY OverlapsGrow
    <2>4. pass[w].step # "idle" => \A v \in Worker \ {w} : pass[v].step = "idle"
      BY <1>2
    <2>5. OnePass'
      <3>1. r.step # "idle" => \A v \in Worker \ {w} : pass'[v].step = "idle"
        BY <2>1, <2>2, <2>3, <2>4
      <3> QED
        BY <1>2, <2>2, <3>1 DEF OnePass
    <2>6. CASE Classifies(w)
      <3>1. /\ pass[w].step = "applying" /\ r.step = "classified"
            /\ r.archetype = pass[w].archetype /\ r.archetype \in Archetype
        BY <2>6, <2>2, ClassifiesFacts DEF Becomes, IInv, TypeInv, Staged, Classifies
      <3>2. process'.archetype = r.archetype
        BY <2>6, <3>1, RevisesFacts DEF Classifies, IInv
      <3>3. \A v \in Worker \ {w} : pass'[v].step = "idle"
        BY <2>2, <2>4, <3>1
      <3>4. ClassifiedOnce'
        BY <2>2, <3>1, <3>2, <3>3 DEF ClassifiedOnce
      <3> QED
        BY <2>5, <3>4 DEF SingleInv
    <2>7. CASE ~Classifies(w)
      <3>1. process' = process
        BY <1>6, <2>7 DEF PassOnly, Starts, Ends, ClassifyReads, Asks, Records, rowVars
      <3>2. ClassifiedOnce'
        BY <1>2, <2>1, <2>2, <2>7, <3>1 DEF ClassifiedOnce
      <3> QED
        BY <2>5, <3>2 DEF SingleInv
    <2> QED
      BY <2>6, <2>7
  <1> QED
    BY <1>4, <1>5, <1>6, StepCases

\* A Process that has an Archetype keeps it through a step.
LEMMA ArchetypeKept ==
    ASSUME IInv, [Next]_vars, process.archetype # None, overlaps = 0
    PROVE  process'.archetype = process.archetype
  <1>1. CASE UpdateWrites
    BY <1>1, RevisesFacts, TypeFacts DEF UpdateWrites, IInv, RowInv, UpdateIsCurrent
  <1>2. ASSUME NEW w \in Worker, Classifies(w) PROVE FALSE
    BY <1>2 DEF Classifies, IInv, SingleInv, ClassifiedOnce
  <1>3. ASSUME NEW w \in Worker, PassOnly(w) \/ Records(w) PROVE process' = process
    BY <1>3 DEF PassOnly, Starts, Ends, ClassifyReads, Asks, Records, rowVars
  <1> QED
    BY <1>1, <1>2, <1>3, StepCases DEF UpdateReads, UpdateRaises, rowVars

\* What is read of the latest State depends on the States alone.
LEMMA LatestKept ==
    ASSUME states' = states
    PROVE  /\ Latest' = Latest
           /\ \A a \in Archetype : PriorUnder(a)' = PriorUnder(a)
  <1>1. Latest' = Latest
    BY DEF Latest, IsLatest
  <1> QED
    BY <1>1 DEF PriorUnder

\* Only Records writes the States, and it appends one.
LEMMA StatesGrow ==
    ASSUME IInv, [Next]_vars
    PROVE  \/ states' = states
           \/ \E w \in Worker : Records(w)
  <1>1. ASSUME NEW w \in Worker, PassOnly(w) \/ Classifies(w) PROVE states' = states
    BY <1>1 DEF PassOnly, Starts, Ends, ClassifyReads, Asks, Classifies, rowVars
  <1> QED
    BY <1>1, StepCases DEF UpdateReads, UpdateWrites, UpdateRaises, rowVars

\* The State a pass appends is the last one.
LEMMA AppendFacts ==
    ASSUME TypeInv, SomeIsLatest, NEW w \in Worker, Records(w)
    PROVE  \E s \in StateRow :
              /\ Len(states) \in Nat /\ DOMAIN states = 1..Len(states)
              /\ DOMAIN states' = 1..(Len(states) + 1) /\ Len(states') = Len(states) + 1
              /\ states'[Len(states) + 1] = s
              /\ \A i \in DOMAIN states : states'[i] = states[i]
              /\ s.archetype = pass[w].archetype /\ s.observed = pass[w].asOf
              /\ s.measured \subseteq pass[w].measured
              /\ s.previous = PriorUnder(s.archetype)
              /\ Permitted(Machines[s.archetype], pass[w].prior, s.label)
  <1>1. PICK s \in StateRow :
              /\ states' = Append(states, s)
              /\ s.archetype = pass[w].archetype /\ s.observed = pass[w].asOf
              /\ s.measured \subseteq pass[w].measured
              /\ s.previous = PriorUnder(s.archetype)
              /\ Permitted(Machines[s.archetype], pass[w].prior, s.label)
    BY RecordsFacts
  <1>2. /\ Len(states) \in Nat /\ DOMAIN states = 1..Len(states)
        /\ DOMAIN states' = 1..(Len(states) + 1) /\ Len(states') = Len(states) + 1
        /\ states'[Len(states) + 1] = s
        /\ \A i \in DOMAIN states : states'[i] = states[i]
    BY <1>1, StatesAreRows, AppendProperties
  <1> QED
    BY <1>1, <1>2

LEMMA PriorStep == ASSUME IInv, [Next]_vars PROVE PriorInv'
  <1> SUFFICES ASSUME overlaps' = 0 PROVE PriorInv'
    BY DEF PriorInv, PriorIsCurrent, MovesArePermitted
  <1>1. overlaps = 0
    BY OverlapsGrow
  <1>2. /\ \A w \in Worker, a \in Archetype :
              pass[w].step = "asked" /\ pass[w].archetype = a => pass[w].prior = PriorUnder(a)
        /\ \A i \in DOMAIN states : FollowsItsPrior(states[i])
        /\ \A v, w \in Worker : pass[v].step # "idle" /\ pass[w].step # "idle" => v = w
    BY <1>1 DEF IInv, PriorInv, PriorIsCurrent, MovesArePermitted, SingleInv, OnePass
  <1>3. CASE states' = states /\ pass' = pass
    BY <1>2, <1>3, LatestKept DEF PriorInv, PriorIsCurrent, MovesArePermitted
  <1>4. ASSUME NEW w \in Worker, PassOnly(w) \/ Classifies(w) PROVE PriorInv'
    <2>1. states' = states
      BY <1>4 DEF PassOnly, Starts, Ends, ClassifyReads, Asks, Classifies, rowVars
    <2>2. PICK r \in PassRow :
            /\ Becomes(w, r)
            /\ r.step = "asked" => Asks(w) /\ r.prior = PriorUnder(r.archetype)
      BY <1>4, PassSteps
    <2>3. ASSUME NEW v \in Worker, NEW a \in Archetype,
                 pass'[v].step = "asked", pass'[v].archetype = a
          PROVE  pass'[v].prior = PriorUnder(a)
      BY <1>2, <2>2, <2>3 DEF Becomes
    <2> QED
      BY <1>2, <2>1, <2>3, LatestKept DEF PriorInv, PriorIsCurrent, MovesArePermitted
  <1>5. ASSUME NEW w \in Worker, Records(w) PROVE PriorInv'
    <2>1. PICK s \in StateRow :
              /\ Len(states) \in Nat /\ DOMAIN states = 1..Len(states)
              /\ DOMAIN states' = 1..(Len(states) + 1)
              /\ states'[Len(states) + 1] = s
              /\ \A i \in DOMAIN states : states'[i] = states[i]
              /\ s.archetype = pass[w].archetype
              /\ s.previous = PriorUnder(s.archetype)
              /\ Permitted(Machines[s.archetype], pass[w].prior, s.label)
      BY <1>5, AppendFacts DEF IInv, OrderInv
    <2>2. pass[w].step = "asked" /\ s.archetype \in Archetype
      BY <1>5 DEF Records, StateRow
    <2>3. pass[w].prior = s.previous
      BY <1>2, <2>1, <2>2
    <2>4. FollowsItsPrior(s)
      BY <2>1, <2>3 DEF FollowsItsPrior, Permitted, CanTransition
    <2>5. MovesArePermitted'
      BY <1>2, <2>1, <2>4 DEF MovesArePermitted
    <2>6. \A v \in Worker : pass'[v].step = "idle"
      BY <1>2, <1>5, <2>2, EndsFacts, IdleIsARow DEF Becomes, Records, IInv
    <2> QED
      BY <2>5, <2>6 DEF PriorInv, PriorIsCurrent
  <1> QED
    BY <1>3, <1>4, <1>5, StepCases DEF UpdateReads, UpdateWrites, UpdateRaises, rowVars

\* Where a pass has its date and its features from.
LEMMA PassDates ==
    ASSUME IInv, NEW w \in Worker, PassOnly(w) \/ Classifies(w) \/ Records(w)
    PROVE  \E r \in PassRow :
              /\ Becomes(w, r)
              /\ r.step # "idle" =>
                    \/ Starts(w) /\ r.asOf = AsOf
                    \/ pass[w].step # "idle" /\ r.asOf = pass[w].asOf
              /\ \A f \in r.measured :
                    f \in pass[w].measured \/ \E j \in DOMAIN states : f \in states[j].features
  <1> USE DEF IInv
  <1>1. CASE Starts(w)
    BY <1>1, StartsFacts
  <1>2. CASE Ends(w) \/ Records(w)
    BY <1>2, EndsFacts, IdleIsARow DEF Ends, Records
  <1>3. CASE ClassifyReads(w)
    BY <1>3, ClassifyReadsFacts DEF ClassifyReads
  <1>4. CASE Asks(w)
    BY <1>4, AsksFacts DEF Asks, OrderInv
  <1>5. CASE Classifies(w)
    BY <1>5, ClassifiesFacts DEF Classifies
  <1> QED
    BY <1>1, <1>2, <1>3, <1>4, <1>5 DEF PassOnly

\* When nothing is dated earlier, evidence stays behind the estimates, and a pass that
\* begins has some.
LEMMA EvidenceGrows ==
    ASSUME IInv, [Next]_vars, redates' = 0, ~undated'
    PROVE  /\ redates = 0 /\ ~undated
           /\ evidence \subseteq evidence'
           /\ \A w \in Worker : Starts(w) => evidence # {}
  <1>1. redates \in Nat
    BY TypeFacts DEF IInv
  <1>2. ASSUME NEW w \in Worker, Starts(w)
        PROVE  evidence # {} /\ redates' = redates /\ ~undated /\ evidence' = evidence
    BY <1>2 DEF Starts, worldVars
  <1>3. CASE Redates
    BY <1>1, <1>3 DEF Redates
  <1>4. CASE ~Redates
    <2>1. Links => redates' = redates /\ undated' = undated /\ evidence \subseteq evidence'
      BY DEF Links, countVars
    <2>2. UpdateReads \/ UpdateWrites \/ UpdateRaises =>
            redates' = redates /\ undated' = undated /\ evidence' = evidence
      BY DEF UpdateReads, UpdateWrites, UpdateRaises, countVars, worldVars
    <2>3. ASSUME NEW w \in Worker, Ends(w) \/ ClassifyReads(w) \/ Classifies(w) \/ Asks(w) \/ Records(w)
          PROVE  redates' = redates /\ undated' = undated /\ evidence' = evidence
      BY <2>3 DEF Ends, ClassifyReads, Classifies, Asks, Records, countVars, worldVars
    <2>4. UNCHANGED vars => redates' = redates /\ undated' = undated /\ evidence' = evidence
      BY DEF vars, worldVars, countVars
    <2>5. redates' = redates /\ (undated => undated') /\ evidence \subseteq evidence'
      BY <1>2, <1>4, <2>1, <2>2, <2>3, <2>4 DEF Next
    <2> QED
      BY <1>2, <2>5
  <1> QED
    BY <1>3, <1>4

\* After a State is appended, one is still the latest.
LEMMA LatestStep == ASSUME IInv, [Next]_vars PROVE SomeIsLatest'
  <1>1. CASE states' = states
    BY <1>1 DEF IInv, OrderInv, SomeIsLatest, IsLatest
  <1>2. ASSUME NEW w \in Worker, Records(w) PROVE SomeIsLatest'
    <2> DEFINE n == Len(states) + 1
    <2>1. PICK s \in StateRow :
            /\ Len(states) \in Nat /\ DOMAIN states = 1..Len(states)
            /\ DOMAIN states' = 1..n /\ states'[n] = s
            /\ \A i \in DOMAIN states : states'[i] = states[i]
      BY <1>2, AppendFacts DEF IInv, OrderInv
    <2>2. \A i \in DOMAIN states : states[i].observed \in Nat
      BY StatesAreRows DEF IInv, StateRow
    <2>3. s.observed \in Nat
      BY DEF StateRow
    <2>4. ASSUME NEW i \in DOMAIN states', \A j \in DOMAIN states' :
                    \/ states'[j].observed < states'[i].observed
                    \/ states'[j].observed = states'[i].observed /\ j <= i
          PROVE  SomeIsLatest'
      BY <2>4 DEF SomeIsLatest, IsLatest
    <2>5. CASE states = <<>>
      BY <2>1, <2>3, <2>4, <2>5
    <2>6. CASE states # <<>>
      <3>1. PICK i \in DOMAIN states : \A j \in DOMAIN states :
                    \/ states[j].observed < states[i].observed
                    \/ states[j].observed = states[i].observed /\ j <= i
        BY <2>6 DEF IInv, OrderInv, SomeIsLatest, IsLatest
      <3>2. CASE states[i].observed <= s.observed
        <4>1. ASSUME NEW j \in 1..n
              PROVE  \/ states'[j].observed < states'[n].observed
                     \/ states'[j].observed = states'[n].observed /\ j <= n
          BY <2>1, <2>2, <2>3, <3>1, <3>2
        <4>2. n \in DOMAIN states' /\ DOMAIN states' = 1..n
          BY <2>1
        <4>3. \A j \in DOMAIN states' :
                    \/ states'[j].observed < states'[n].observed
                    \/ states'[j].observed = states'[n].observed /\ j <= n
          BY <4>1, <4>2
        <4> HIDE DEF n
        <4> QED
          BY <2>4, <4>2, <4>3, Zenon
      <3>3. CASE s.observed < states[i].observed
        <4>1. ASSUME NEW j \in 1..n
              PROVE  \/ states'[j].observed < states'[i].observed
                     \/ states'[j].observed = states'[i].observed /\ j <= i
          BY <2>1, <2>2, <2>3, <3>1, <3>3
        <4>2. i \in DOMAIN states' /\ DOMAIN states' = 1..n
          BY <2>1
        <4>3. \A j \in DOMAIN states' :
                    \/ states'[j].observed < states'[i].observed
                    \/ states'[j].observed = states'[i].observed /\ j <= i
          BY <4>1, <4>2
        <4> HIDE DEF n
        <4> QED
          BY <2>4, <4>2, <4>3, Zenon
      <3> QED
        BY <2>2, <2>3, <3>2, <3>3
    <2> QED
      BY <2>5, <2>6
  <1> QED
    BY <1>1, <1>2, StatesGrow

LEMMA DatesStep == ASSUME IInv, [Next]_vars PROVE EstimatesAreDated'
  <1> SUFFICES ASSUME redates' = 0, ~undated' PROVE EstimatesAreDated'
    BY DEF EstimatesAreDated
  <1>1. /\ evidence \subseteq evidence'
        /\ \A w \in Worker : Starts(w) => evidence # {}
    BY EvidenceGrows
  <1>2. /\ \A i \in DOMAIN states : \E t \in evidence' : states[i].observed <= t
        /\ \A w \in Worker : pass[w].step # "idle" => \E t \in evidence' : pass[w].asOf <= t
    BY <1>1, EvidenceGrows DEF IInv, OrderInv, EstimatesAreDated
  <1>3. CASE states' = states /\ pass' = pass
    BY <1>2, <1>3 DEF EstimatesAreDated
  <1>4. ASSUME NEW w \in Worker, PassOnly(w) \/ Classifies(w) \/ Records(w)
        PROVE  \A v \in Worker : pass'[v].step # "idle" => \E t \in evidence' : pass'[v].asOf <= t
    <2>1. PICK r \in PassRow :
              /\ Becomes(w, r)
              /\ r.step # "idle" =>
                    \/ Starts(w) /\ r.asOf = AsOf
                    \/ pass[w].step # "idle" /\ r.asOf = pass[w].asOf
      BY <1>4, PassDates
    <2>2. Starts(w) => AsOf \in evidence' /\ AsOf <= AsOf
      BY <1>1, NewestEvidence DEF IInv
    <2> QED
      BY <1>2, <2>1, <2>2 DEF Becomes
  <1>5. ASSUME NEW w \in Worker, Records(w)
        PROVE  \A i \in DOMAIN states' : \E t \in evidence' : states'[i].observed <= t
    <2>1. PICK s \in StateRow :
            /\ Len(states) \in Nat /\ DOMAIN states = 1..Len(states)
            /\ DOMAIN states' = 1..(Len(states) + 1) /\ states'[Len(states) + 1] = s
            /\ \A i \in DOMAIN states : states'[i] = states[i]
            /\ s.observed = pass[w].asOf
      BY <1>5, AppendFacts DEF IInv, OrderInv
    <2>2. \E t \in evidence' : s.observed <= t
      BY <1>2, <1>5, <2>1 DEF Records
    <2> QED
      BY <1>2, <2>1, <2>2
  <1>6. ASSUME NEW w \in Worker, PassOnly(w) \/ Classifies(w) PROVE states' = states
    BY <1>6 DEF PassOnly, Starts, Ends, ClassifyReads, Asks, Classifies, rowVars
  <1>7. ASSUME NEW w \in Worker, PassOnly(w) \/ Classifies(w) \/ Records(w) PROVE EstimatesAreDated'
    BY <1>2, <1>4, <1>5, <1>6, <1>7 DEF EstimatesAreDated
  <1> QED
    BY <1>3, <1>7, StepCases DEF UpdateReads, UpdateWrites, UpdateRaises, rowVars

LEMMA OrderedStep == ASSUME IInv, [Next]_vars PROVE EstimatesAreOrdered'
  <1> SUFFICES ASSUME overlaps' = 0, redates' = 0, ~undated' PROVE EstimatesAreOrdered'
    BY DEF EstimatesAreOrdered
  <1>1. overlaps = 0 /\ redates = 0 /\ ~undated
    BY OverlapsGrow, EvidenceGrows
  <1>2. /\ \A i, j \in DOMAIN states : i <= j => states[i].observed <= states[j].observed
        /\ \A w \in Worker : pass[w].step # "idle" =>
              \A i \in DOMAIN states : states[i].observed <= pass[w].asOf
        /\ \A v, w \in Worker : pass[v].step # "idle" /\ pass[w].step # "idle" => v = w
    BY <1>1 DEF IInv, OrderInv, EstimatesAreOrdered, SingleInv, OnePass
  <1>3. CASE states' = states /\ pass' = pass
    BY <1>2, <1>3 DEF EstimatesAreOrdered
  <1>4. ASSUME NEW w \in Worker, PassOnly(w) \/ Classifies(w) PROVE EstimatesAreOrdered'
    <2>1. states' = states
      BY <1>4 DEF PassOnly, Starts, Ends, ClassifyReads, Asks, Classifies, rowVars
    <2>2. PICK r \in PassRow :
              /\ Becomes(w, r)
              /\ r.step # "idle" =>
                    \/ Starts(w) /\ r.asOf = AsOf
                    \/ pass[w].step # "idle" /\ r.asOf = pass[w].asOf
      BY <1>4, PassDates
    <2>3. ASSUME Starts(w), NEW i \in DOMAIN states PROVE states[i].observed <= AsOf
      <3>1. \A u \in evidence : u <= AsOf
        BY <2>3, NewestEvidence, EvidenceGrows DEF IInv
      <3>2. PICK t \in evidence : states[i].observed <= t
        BY <1>1 DEF IInv, OrderInv, EstimatesAreDated
      <3>3. states[i].observed \in Nat /\ t \in Nat /\ AsOf \in Nat
        BY StatesAreRows, TypeFacts, NewestEvidence DEF IInv, StateRow
      <3> QED
        BY <3>1, <3>2, <3>3
    <2>4. \A v \in Worker : pass'[v].step # "idle" =>
              \A i \in DOMAIN states : states[i].observed <= pass'[v].asOf
      BY <1>2, <2>2, <2>3 DEF Becomes
    <2> QED
      BY <1>2, <2>1, <2>4 DEF EstimatesAreOrdered
  <1>5. ASSUME NEW w \in Worker, Records(w) PROVE EstimatesAreOrdered'
    <2>1. PICK s \in StateRow :
            /\ Len(states) \in Nat /\ DOMAIN states = 1..Len(states)
            /\ DOMAIN states' = 1..(Len(states) + 1) /\ states'[Len(states) + 1] = s
            /\ \A i \in DOMAIN states : states'[i] = states[i]
            /\ s.observed = pass[w].asOf
      BY <1>5, AppendFacts DEF IInv, OrderInv
    <2>2. \A i \in DOMAIN states : states[i].observed <= s.observed
      BY <1>2, <1>5, <2>1 DEF Records
    <2>3. s.observed <= s.observed
      BY DEF StateRow
    <2>4. \A i, j \in DOMAIN states' : i <= j => states'[i].observed <= states'[j].observed
      BY <1>2, <2>1, <2>2, <2>3
    <2>5. \A v \in Worker : pass'[v].step = "idle"
      BY <1>2, <1>5, EndsFacts, IdleIsARow DEF Becomes, Records, IInv
    <2> QED
      BY <2>4, <2>5 DEF EstimatesAreOrdered
  <1> QED
    BY <1>3, <1>4, <1>5, StepCases DEF UpdateReads, UpdateWrites, UpdateRaises, rowVars

LEMMA FeatureStep == ASSUME IInv, [Next]_vars PROVE FeatureInv'
  <1>1. /\ \A w \in Worker : \A f \in pass[w].measured :
              \E j \in DOMAIN states : f \in states[j].features
        /\ \A i \in DOMAIN states : \A f \in states[i].measured :
              \E j \in 1..(i - 1) : f \in states[j].features
    BY DEF IInv, FeatureInv, MeasuredIsRecorded, MeasuredWasRecorded
  <1>2. CASE states' = states /\ pass' = pass
    BY <1>1, <1>2 DEF FeatureInv, MeasuredIsRecorded, MeasuredWasRecorded
  <1>3. ASSUME NEW w \in Worker, PassOnly(w) \/ Classifies(w) \/ Records(w)
        PROVE  \A v \in Worker : \A f \in pass'[v].measured :
                  \E j \in DOMAIN states : f \in states[j].features
    <2>1. PICK r \in PassRow :
              /\ Becomes(w, r)
              /\ \A f \in r.measured :
                    f \in pass[w].measured \/ \E j \in DOMAIN states : f \in states[j].features
      BY <1>3, PassDates
    <2> QED
      BY <1>1, <2>1 DEF Becomes
  <1>4. ASSUME NEW w \in Worker, PassOnly(w) \/ Classifies(w) PROVE FeatureInv'
    <2>1. states' = states
      BY <1>4 DEF PassOnly, Starts, Ends, ClassifyReads, Asks, Classifies, rowVars
    <2> QED
      BY <1>1, <1>3, <1>4, <2>1 DEF FeatureInv, MeasuredIsRecorded, MeasuredWasRecorded
  <1>5. ASSUME NEW w \in Worker, Records(w) PROVE FeatureInv'
    <2>1. PICK s \in StateRow :
            /\ Len(states) \in Nat /\ DOMAIN states = 1..Len(states)
            /\ DOMAIN states' = 1..(Len(states) + 1) /\ states'[Len(states) + 1] = s
            /\ \A i \in DOMAIN states : states'[i] = states[i]
            /\ s.measured \subseteq pass[w].measured
      BY <1>5, AppendFacts DEF IInv, OrderInv
    <2>2. MeasuredIsRecorded'
      BY <1>3, <1>5, <2>1 DEF MeasuredIsRecorded
    <2>3. MeasuredWasRecorded'
      <3>1. ASSUME NEW i \in DOMAIN states, NEW f \in states'[i].measured
            PROVE  \E j \in 1..(i - 1) : f \in states'[j].features
        BY <1>1, <2>1, <3>1
      <3>2. ASSUME NEW f \in s.measured
            PROVE  \E j \in 1..((Len(states) + 1) - 1) : f \in states'[j].features
        BY <1>1, <2>1, <3>2
      <3> QED
        BY <2>1, <3>1, <3>2 DEF MeasuredWasRecorded
    <2> QED
      BY <2>2, <2>3 DEF FeatureInv
  <1> QED
    BY <1>2, <1>4, <1>5, StepCases DEF UpdateReads, UpdateWrites, UpdateRaises, rowVars

LEMMA StepHolds == IInv /\ [Next]_vars => IInv'
  BY TypeStep, RowStep, SingleStep, PriorStep, LatestStep, DatesStep, OrderedStep, FeatureStep
     DEF IInv, OrderInv

LEMMA InvHolds == Spec => []IInv
  BY InitHolds, StepHolds, PTL DEF Spec

-----------------------------------------------------------------------------
(* The properties.                                                         *)

\* Where estimates are ordered, the last State is the latest.
LEMMA LastIsLatest == IInv => LatestIsLastRecorded
  <1> SUFFICES ASSUME IInv, overlaps = 0, redates = 0, ~undated, states # <<>>
               PROVE  Latest = Len(states)
    BY DEF LatestIsLastRecorded
  <1>1. /\ Len(states) \in Nat /\ DOMAIN states = 1..Len(states)
        /\ Len(states) \in DOMAIN states
        /\ \A i \in DOMAIN states : states[i].observed \in Nat
    BY StatesAreRows DEF IInv, StateRow
  <1>2. \A i, j \in DOMAIN states : i <= j => states[i].observed <= states[j].observed
    BY DEF IInv, OrderInv, EstimatesAreOrdered
  <1>3. Latest \in DOMAIN states /\ IsLatest(Latest)
    BY LatestIsOne DEF IInv, OrderInv
  <1>4. \/ states[Len(states)].observed < states[Latest].observed
        \/ states[Len(states)].observed = states[Latest].observed /\ Len(states) <= Latest
    BY <1>1, <1>3 DEF IsLatest
  <1>5. states[Latest].observed <= states[Len(states)].observed
    BY <1>1, <1>2, <1>3
  <1> QED
    BY <1>1, <1>3, <1>4, <1>5

\* Each belief has its own revision, what downstream reads as the latest State is the
\* one estimated last unless something named in LatestIsLastRecorded interfered, and
\* what is stored as measured was in a State before
\* (state_persistence.py, record_state and apply_archetype).
THEOREM BeliefsAreRecordedHolds == Spec => []BeliefsAreRecorded
  <1>1. IInv => BeliefsAreRecorded
    BY LastIsLatest DEF IInv, TypeInv, RowInv, FeatureInv, BeliefsAreRecorded
  <1> QED
    BY <1>1, InvHolds, PTL

\* A Process keeps its Archetype: a revision written from an older reading meets the
\* primary key, and a pass that is alone classifies only what has none
\* (state_persistence.py, apply_archetype).
THEOREM ArchetypeStandsHolds == Spec => ArchetypeStands
  <1>1. IInv /\ [Next]_vars =>
          [process.archetype # None /\ overlaps = 0
             => process'.archetype = process.archetype]_vars
    BY ArchetypeKept
  <1> QED
    BY <1>1, InvHolds, PTL DEF Spec, ArchetypeStands

\* Whatever the machines are, a State follows the one before it by a move its machine
\* allows while passes do not overlap; that the machines of the ontology hold together
\* is a fact about five constants, which the run evaluates
\* (state_agents.py, StateTransitionEvaluator).
THEOREM StepsArePermittedHolds == MachinesHold => (Spec => []StepsArePermitted)
  <1> SUFFICES ASSUME MachinesHold PROVE Spec => []StepsArePermitted
    OBVIOUS
  <1>1. IInv => StepsArePermitted
    BY DEF IInv, PriorInv, MovesArePermitted, StepsArePermitted
  <1> QED
    BY <1>1, InvHolds, PTL
=============================================================================
